---- MODULE Spec2Model ----
(***************************************************************************)
(* Model of the validation pipeline of sectors_guard_validator:           *)
(*   IDXFinancialValidator.validate_table  (specialized path)             *)
(*   DataValidator.validate_table          (generic path)                 *)
(*   DataValidator._store_validation_results / _store_results_locally     *)
(*   the three batch orchestrators ("validate all")                       *)
(* One validation run is a process whose position is pc; it suspends at   *)
(* the awaits of the code (fetch, checks, insert, sleep, local write).    *)
(***************************************************************************)
EXTENDS Integers, Sequences, FiniteSets, TLC

VARIABLES
    pc,             \* position of the run inside validate_table
    path,           \* "idx": table in self.idx_tables, "generic": fallback
    fetchOutcome,   \* what the data fetch met
    total_rows,     \* len(data)
    config,         \* validation_config (generic path)
    produced,       \* anomalies returned by the checks, in order
    checksRun,      \* registry check functions invoked by the run
    results,        \* the results dict (status, count, anomalies)
    validation_data,\* anomalies of the payload built for the insert
    attempt,        \* loop variable of the retry loop
    inserts,        \* outcome of every insert attempt so far
    sleeps,         \* seconds slept by asyncio.sleep(1)
    db,             \* payloads inserted into validation_results
    fallbackCalls,  \* calls of _store_results_locally
    localFile,      \* the local fallback file
    jsonFileOk,     \* whether _create_validation_json_file succeeded
    returned,       \* value returned by validate_table
    orch,           \* batch: which orchestrator runs
    tables,         \* batch: the list of dataset names
    bi,             \* batch: index of the next list element
    bresults,       \* batch: the results collection, in insertion order
    outcomes,       \* batch: what validate_table returned per element
    bpc,            \* batch: position of the orchestrator
    fn,             \* check: the registry function that runs
    missing,        \* check: columns absent from the dataset
    data_rows,      \* check: len(data) of the frame passed to the function
    cpc,            \* check: position inside the registry function
    si,             \* check: index of the next section of the function
    canoms,         \* check: the function's anomalies list
    sectionsRun,    \* check: sections of the function entered so far
    raisedIn,       \* check: section in which an exception was raised
    cresult,        \* check: what validate_table made of the anomalies
    today,          \* window: today's date in Jakarta, as a day number
    win_table,      \* window: table_name passed to the fetch
    start_date,     \* window: start_date given by the caller
    end_date,       \* window: end_date given by the caller
    applied,        \* window: the start and end the fetch returns
    wpc,            \* window: position inside the fetch
    df_row,         \* identity: the row of the frame df
    company,        \* identity: what _get_company_data meets for the row
    ianoms,         \* identity: anomalies of _add_identity_anomalies
    ipc,            \* identity: position of _add_identity_anomalies
    history,        \* extreme change: one metric of one symbol, by period
    freq,           \* extreme change: annual or quarterly check
    eanoms,         \* extreme change: anomalies for the pair
    epc,            \* extreme change: position of the check
    filings,        \* filings: valid_data, the rows with an amount
    pairs,          \* filings: duplicate pairs reported by a pass
    pairs_again,    \* filings: pairs reported by a second pass
    pairs_reversed, \* filings: pairs reported on the rows in reverse order
    fpc,            \* filings: position of the caller of the passes
    values,         \* price: recorded highs and lows of one symbol
    daily,          \* price: what the daily-price lookup gives
    panoms,         \* price: anomalies for the symbol
    ppc,            \* price: position of the check
    base_a,         \* tolerance: a base amount
    base_b,         \* tolerance: another base amount
    tol_rel,        \* tolerance: rel, in percent
    tol_floor,      \* tolerance: abs_tol
    tol_a,          \* tolerance: 100 * _tolerance of base_a
    tol_b,          \* tolerance: 100 * _tolerance of base_b
    tpc,            \* tolerance: position of the caller
    rpc,            \* route: position of run_validation
    notifier_calls, \* route: calls of notify_validation_complete
    alerts,         \* route: calls of send_validation_alert
    json_deleted,   \* route: whether the notifier removed the results file
    fcf_rows,       \* free cash flow: the rows of the frame, in order
    fcf_i,          \* free cash flow: index of the next row of the loop
    sub_sector_id,  \* free cash flow: the local variable of the loop
    evaluated,      \* free cash flow: per row, whether it was compared
    fcf_anoms,      \* free cash flow: anomalies of the loop
    cache,          \* CI status: _LOCAL_CACHE.get('github_actions')
    rq,             \* CI status: position of each request
    served,         \* CI status: what each request returned
    upstream,       \* CI status: requests that went to the GitHub API
    clock,          \* CI status: time.time(), in days
    roster,         \* coverage: symbols of idx_active_company_profile
    roster_fetch,   \* coverage: whether the fetch of the roster raises
    active_symbols, \* coverage: the list the check got for the roster
    day_frames,     \* coverage: per date of the data, its rows in short
    cov_i,          \* coverage: index of the next date of the loop
    cov_anoms,      \* coverage: anomalies of the check
    cov_pc          \* coverage: position of the check

runVars == <<pc, path, fetchOutcome, total_rows, config, produced,
             checksRun, results, validation_data, attempt, inserts, sleeps,
             db, fallbackCalls, localFile, jsonFileOk, returned>>
batchVars == <<orch, tables, bi, bresults, outcomes, bpc>>
fnVars == <<fn, missing, data_rows, cpc, si, canoms, sectionsRun, raisedIn,
            cresult>>
windowVars == <<today, win_table, start_date, end_date, applied, wpc>>
identityVars == <<df_row, company, ianoms, ipc>>
extremeVars == <<history, freq, eanoms, epc>>
filingsVars == <<filings, pairs, pairs_again, pairs_reversed, fpc>>
priceVars == <<values, daily, panoms, ppc>>
toleranceVars == <<base_a, base_b, tol_rel, tol_floor, tol_a, tol_b, tpc>>
routeVars == <<rpc, notifier_calls, alerts, json_deleted>>
fcfVars == <<fcf_rows, fcf_i, sub_sector_id, evaluated, fcf_anoms>>
cacheVars == <<cache, rq, served, upstream, clock>>
coverageVars == <<roster, roster_fetch, active_symbols, day_frames, cov_i,
                  cov_anoms, cov_pc>>
moreVars == <<toleranceVars, routeVars, fcfVars, cacheVars, coverageVars>>
earlyVars == <<runVars, batchVars, fnVars, windowVars, identityVars,
               extremeVars, filingsVars, priceVars>>
exceptTolerance == <<earlyVars, routeVars, fcfVars, cacheVars, coverageVars>>
exceptRoute == <<batchVars, fnVars, windowVars, identityVars, extremeVars,
                 filingsVars, priceVars, toleranceVars, fcfVars, cacheVars,
                 coverageVars>>
exceptFcf == <<earlyVars, toleranceVars, routeVars, cacheVars, coverageVars>>
exceptCache == <<earlyVars, toleranceVars, routeVars, fcfVars, coverageVars>>
exceptCoverage == <<earlyVars, toleranceVars, routeVars, fcfVars, cacheVars>>
checkVars == <<fnVars, windowVars, identityVars, extremeVars, filingsVars,
               priceVars, moreVars>>
vars == <<runVars, batchVars, checkVars>>

----------------------------------------------------------------------------
(* Bounds of the model *)
MaxAnoms == 22
MaxRows == 2
MaxTables == 3

(* Program constants *)
MaxRetriesTwo == 3 - 1

MaxRetries == 3
SizeLimit == 50000
KeepCount == 20
DefaultThreshold == 10
UserThreshold == 5
TransactionThreshold == 10
OtherThreshold == 5

(* Serialized sizes (characters of json.dumps of one anomaly dict) the      *)
(* model draws from: small records, records with long details, very large  *)
(* records, and two sizes that put a one-element list at 50,000 and 50,001 *)
AnomalySizes == {100, 2600, 9000, 49998, 49999}

(* Severity of the anomalies a run produces, repeating with period 3 *)
SevPatterns == << <<"error", "error", "error">>,
                  <<"warning", "warning", "warning">>,
                  <<"info", "info", "info">>,
                  <<"error", "warning", "info">>,
                  <<"warning", "error", "error">> >>

MkAnomalies(n, z, p) ==
    [i \in 1..n |-> [id |-> i, type |-> "check",
                     severity |-> SevPatterns[p][((i - 1) % 3) + 1],
                     size |-> z]]

AnomalyLists ==
    {MkAnomalies(n, z, p) : n \in 0..MaxAnoms, z \in AnomalySizes,
                            p \in 1..Len(SevPatterns)}

Min(a, b) == IF a < b THEN a ELSE b

Digits(n) == IF n < 10 THEN 1 ELSE IF n < 100 THEN 2 ELSE 3

----------------------------------------------------------------------------
(* Pure helpers of the code *)

RECURSIVE SumSizes(_)
SumSizes(s) == IF s = <<>> THEN 0 ELSE Head(s).size + SumSizes(Tail(s))

\* len(json.dumps(list)): "[" + ", ".join(items) + "]"
JsonSize(anoms) ==
    IF Len(anoms) = 0 THEN 2
    ELSE 2 + SumSizes(anoms) + 2 * (Len(anoms) - 1)

TruncationMarkerNotice(original_count) ==
    [id |-> 0, type |-> "truncated_results", severity |-> "notice",
     size |-> 118 + Digits(original_count)]

\* the synthetic marker appended on truncation
TruncationMarker(original_count) ==
    [id |-> 0, type |-> "truncated_results", severity |-> "info",
     size |-> 118 + Digits(original_count)]

TruncateAtOrAbove(anoms) ==
    IF JsonSize(anoms) >= SizeLimit
    THEN Append(SubSeq(anoms, 1, Min(KeepCount, Len(anoms))),
                TruncationMarker(Len(anoms)))
    ELSE anoms

\* data_validator.py 387-404
Truncate(anoms) ==
    IF JsonSize(anoms) > SizeLimit
    THEN Append(SubSeq(anoms, 1, Min(KeepCount, Len(anoms))),
                TruncationMarker(Len(anoms)))
    ELSE anoms

IsError(a) == a.severity = "error"
IsNotInfo(a) == a.severity # "info"

ErrorAndWarningAnomalies(anoms) == SelectSeq(anoms, IsNotInfo)

\* idx_financial_validator.py 81
ErrorAnomalies(anoms) == SelectSeq(anoms, IsError)

StatusIdxWarning(count) ==
    IF count > 1 THEN "error" ELSE IF count > 0 THEN "warning" ELSE "success"

\* idx_financial_validator.py 87-88
StatusIdx(count) == IF count > 0 THEN "error" ELSE "success"

StatusGenericAtOrAbove(count, threshold) ==
    IF count > 0
    THEN IF count >= threshold THEN "error" ELSE "warning"
    ELSE "success"

\* data_validator.py 67-71
StatusGeneric(count, threshold) ==
    IF count > 0
    THEN IF count > threshold THEN "error" ELSE "warning"
    ELSE "success"

\* validation_config.get("error_threshold", 10)
Threshold(cfg) ==
    IF cfg.has_threshold THEN cfg.error_threshold ELSE DefaultThreshold

ApiErrorsOnly(all_anomalies, error_anomalies) == error_anomalies

\* idx_financial_validator.py 94: the list put back before returning
ApiAnomalies(all_anomalies, error_anomalies) == all_anomalies

----------------------------------------------------------------------------
(* Values *)

NoResult ==
    [kind |-> "none", status |-> "none", anomalies_count |-> 0,
     anomalies |-> <<>>, total_rows |-> 0]

\* the dict returned by the except branch of validate_table: it has no
\* anomalies_count and no anomalies (callers read them with .get(.., 0 / []))
ErrorDict ==
    [kind |-> "error_dict", status |-> "error", anomalies_count |-> 0,
     anomalies |-> <<>>, total_rows |-> 0]

NoConfig == [has_threshold |-> FALSE, error_threshold |-> 0]
NoFile == [written |-> FALSE, anomalies |-> <<>>]

FetchOutcomes == {"rows", "no_rows", "query_error", "exception"}
NameClasses == {"user", "transaction", "other"}
DbOutcomes == {"raises", "no_row", "row"}

\* a row of validation_configs: the error_threshold column (when the table
\* has it) and the error_threshold inside config_data / validation_rules
ConfigRows ==
    [row_has : BOOLEAN, row_thr : {3, 12}, base_has : BOOLEAN, base_thr : {7}]

----------------------------------------------------------------------------
(* Callees of validate_table *)

FetchRaisesOnFailure(outcome, n) ==
    [raised |-> outcome \in {"query_error", "exception"},
     rows |-> IF outcome = "rows" THEN n ELSE 0]

\* idx_financial_validator.py 106-269: every failure ends in an empty frame
FetchTableDataWithFilter(outcome, n) ==
    [raised |-> FALSE, rows |-> IF outcome = "rows" THEN n ELSE 0]

\* data_validator.py 89-96
FetchTableData(outcome, n) ==
    [raised |-> FALSE, rows |-> IF outcome = "rows" THEN n ELSE 0]

\* data_validator.py 147-173
GetDefaultConfig(nc) ==
    [has_threshold |-> TRUE,
     error_threshold |-> IF nc = "user" THEN UserThreshold
                         ELSE IF nc = "transaction" THEN TransactionThreshold
                         ELSE OtherThreshold]

\* data_validator.py 116-145
GetValidationConfig(dbo, row, nc) ==
    IF dbo = "row"
    THEN IF row.row_has
         THEN [has_threshold |-> TRUE, error_threshold |-> row.row_thr]
         ELSE IF row.base_has
              THEN [has_threshold |-> TRUE, error_threshold |-> row.base_thr]
              ELSE NoConfig
    ELSE GetDefaultConfig(nc)

StoreLocallyPropagates(o) == [raised |-> o = "fail"]

\* data_validator.py 427-430 and 448-471: a failed write is caught twice
StoreLocallyOutcome(o) == [raised |-> FALSE]

LocalFileOfPayload(res, payload) == [written |-> TRUE, anomalies |-> payload]

\* data_validator.py 428, 465-466: json.dump(results, f)
LocalFileContent(res, payload) ==
    [written |-> TRUE, anomalies |-> res.anomalies]

----------------------------------------------------------------------------
(* Values of the variables of a part of the program that is not running *)

RunIdle ==
    /\ pc = "idle"
    /\ path = "idx"
    /\ fetchOutcome = "none"
    /\ total_rows = 0
    /\ config = NoConfig
    /\ produced = <<>>
    /\ checksRun = 0
    /\ results = NoResult
    /\ validation_data = <<>>
    /\ attempt = 0
    /\ inserts = <<>>
    /\ sleeps = 0
    /\ db = <<>>
    /\ fallbackCalls = 0
    /\ localFile = NoFile
    /\ jsonFileOk = TRUE
    /\ returned = NoResult

BatchIdle ==
    /\ orch = "none"
    /\ tables = <<>>
    /\ bi = 1
    /\ bresults = <<>>
    /\ outcomes = <<>>
    /\ bpc = "idle"

NoCheckResult ==
    [status |-> "none", anomalies_count |-> 0, anomalies |-> <<>>,
     payload |-> <<>>]

FnIdle ==
    /\ fn = "none"
    /\ missing = {}
    /\ data_rows = 0
    /\ cpc = "idle"
    /\ si = 1
    /\ canoms = <<>>
    /\ sectionsRun = <<>>
    /\ raisedIn = "none"
    /\ cresult = NoCheckResult

\* None and a date, counted in days; day 0 is a Monday
NoDate == [given |-> FALSE, day |-> 0]
Date(d) == [given |-> TRUE, day |-> d]

WindowIdle ==
    /\ today = 0
    /\ win_table = "none"
    /\ start_date = NoDate
    /\ end_date = NoDate
    /\ applied = [start |-> NoDate, end |-> NoDate]
    /\ wpc = "idle"

IdentityIdle ==
    /\ df_row = [symbol |-> "none"]
    /\ company = "none"
    /\ ianoms = <<>>
    /\ ipc = "idle"

ExtremeIdle ==
    /\ history = <<>>
    /\ freq = "none"
    /\ eanoms = <<>>
    /\ epc = "idle"

FilingsIdle ==
    /\ filings = <<>>
    /\ pairs = <<>>
    /\ pairs_again = <<>>
    /\ pairs_reversed = <<>>
    /\ fpc = "idle"

PriceIdle ==
    /\ values = <<>>
    /\ daily = "none"
    /\ panoms = <<>>
    /\ ppc = "idle"

ToleranceIdle ==
    /\ base_a = 0
    /\ base_b = 0
    /\ tol_rel = 0
    /\ tol_floor = 0
    /\ tol_a = 0
    /\ tol_b = 0
    /\ tpc = "idle"

RouteIdle ==
    /\ rpc = "idle"
    /\ notifier_calls = 0
    /\ alerts = 0
    /\ json_deleted = FALSE

FcfIdle ==
    /\ fcf_rows = <<>>
    /\ fcf_i = 1
    /\ sub_sector_id = "unbound"
    /\ evaluated = <<>>
    /\ fcf_anoms = <<>>

EarlyIdle ==
    /\ RunIdle
    /\ BatchIdle
    /\ FnIdle
    /\ WindowIdle
    /\ IdentityIdle
    /\ ExtremeIdle
    /\ FilingsIdle
    /\ PriceIdle

NoEntry == [present |-> FALSE, ts |-> 0, data |-> 0]

CacheIdle ==
    /\ cache = NoEntry
    /\ rq = <<>>
    /\ served = <<>>
    /\ upstream = 0
    /\ clock = 0

CoverageIdle ==
    /\ roster = {}
    /\ roster_fetch = "none"
    /\ active_symbols = {}
    /\ day_frames = <<>>
    /\ cov_i = 1
    /\ cov_anoms = <<>>
    /\ cov_pc = "idle"

LateIdle ==
    /\ ToleranceIdle
    /\ FcfIdle
    /\ CacheIdle
    /\ CoverageIdle

MoreIdle ==
    /\ LateIdle
    /\ RouteIdle

ChecksIdle ==
    /\ LateIdle
    /\ FnIdle
    /\ WindowIdle
    /\ IdentityIdle
    /\ ExtremeIdle
    /\ FilingsIdle
    /\ PriceIdle

----------------------------------------------------------------------------
(* One validation run *)

Init ==
    /\ pc = "start"
    /\ path \in {"idx", "generic"}
    /\ fetchOutcome = "none"
    /\ total_rows = 0
    /\ config = NoConfig
    /\ produced = <<>>
    /\ checksRun = 0
    /\ results = NoResult
    /\ validation_data = <<>>
    /\ attempt = 0
    /\ inserts = <<>>
    /\ sleeps = 0
    /\ db = <<>>
    /\ fallbackCalls = 0
    /\ localFile = NoFile
    /\ jsonFileOk = TRUE
    /\ returned = NoResult
    /\ orch = "none"
    /\ tables = <<>>
    /\ bi = 1
    /\ bresults = <<>>
    /\ outcomes = <<>>
    /\ bpc = "idle"
    /\ ChecksIdle
    /\ rpc = "called"
    /\ notifier_calls = 0
    /\ alerts = 0
    /\ json_deleted = FALSE

\* idx 47 / data_validator 24
FetchData ==
    /\ pc = "start"
    /\ \E o \in FetchOutcomes, n \in 1..MaxRows :
         LET f == IF path = "idx" THEN FetchTableDataWithFilter(o, n)
                  ELSE FetchTableData(o, n)
         IN /\ fetchOutcome' = o
            /\ IF f.raised
               THEN /\ returned' = ErrorDict
                    /\ pc' = "done"
                    /\ UNCHANGED total_rows
               ELSE /\ total_rows' = f.rows
                    /\ pc' = IF path = "idx" THEN "fetched" ELSE "config"
                    /\ UNCHANGED returned
    /\ UNCHANGED <<path, config, produced, checksRun, results, validation_data,
                   attempt, inserts, sleeps, db, fallbackCalls, localFile,
                   jsonFileOk, batchVars, checkVars>>

\* data_validator 27
ReadConfig ==
    /\ pc = "config"
    /\ \E dbo \in DbOutcomes, row \in ConfigRows, nc \in NameClasses :
         config' = GetValidationConfig(dbo, row, nc)
    /\ pc' = "fetched"
    /\ UNCHANGED <<path, fetchOutcome, total_rows, produced, checksRun, results,
                   validation_data, attempt, inserts, sleeps, db, fallbackCalls,
                   localFile, jsonFileOk, returned, batchVars, checkVars>>

\* idx 64-77: the registry function runs only on a non-empty frame; every
\* registry function catches its own exceptions and returns anomalies
RunIdxChecks ==
    /\ pc = "fetched"
    /\ path = "idx"
    /\ IF total_rows > 0
       THEN /\ \E a \in AnomalyLists : produced' = a
            /\ checksRun' = checksRun + 1
       ELSE /\ produced' = <<>>
            /\ UNCHANGED checksRun
    /\ pc' = "checked"
    /\ UNCHANGED <<path, fetchOutcome, total_rows, config, results,
                   validation_data, attempt, inserts, sleeps, db, fallbackCalls,
                   localFile, jsonFileOk, returned, batchVars, checkVars>>

\* data_validator 40-62 (and 81-87): the generic checks return at once on an
\* empty frame; on data they may raise, which validate_table turns into the
\* error dict
RunGenericChecks ==
    /\ pc = "fetched"
    /\ path = "generic"
    /\ IF total_rows > 0
       THEN \E a \in AnomalyLists, raises \in BOOLEAN :
              IF raises
              THEN /\ returned' = ErrorDict
                   /\ pc' = "done"
                   /\ UNCHANGED produced
              ELSE /\ produced' = a
                   /\ pc' = "checked"
                   /\ UNCHANGED returned
       ELSE /\ produced' = <<>>
            /\ pc' = "checked"
            /\ UNCHANGED returned
    /\ UNCHANGED <<path, fetchOutcome, total_rows, config, checksRun, results,
                   validation_data, attempt, inserts, sleeps, db, fallbackCalls,
                   localFile, jsonFileOk, batchVars, checkVars>>

\* idx 79-91, data_validator 64-74, and the head of
\* _store_validation_results (375-407) up to the first insert
Aggregate ==
    /\ pc = "checked"
    /\ LET kept == IF path = "idx" THEN ErrorAnomalies(produced) ELSE produced
           count == Len(kept)
           status == IF path = "idx" THEN StatusIdx(count)
                     ELSE StatusGeneric(count, Threshold(config))
       IN /\ results' = [kind |-> "result", status |-> status,
                         anomalies_count |-> count, anomalies |-> kept,
                         total_rows |-> total_rows]
          /\ validation_data' = Truncate(kept)
    /\ attempt' = 0
    /\ pc' = "insert"
    /\ UNCHANGED <<path, fetchOutcome, total_rows, config, produced, checksRun,
                   inserts, sleeps, db, fallbackCalls, localFile, jsonFileOk,
                   returned, batchVars, checkVars>>

\* data_validator 408-420: one pass of the retry loop
InsertAttempt ==
    /\ pc = "insert"
    /\ \E ok \in BOOLEAN :
         /\ inserts' = Append(inserts, IF ok THEN "ok" ELSE "fail")
         /\ IF ok
            THEN /\ db' = Append(db, validation_data)
                 /\ pc' = "stored"
            ELSE /\ UNCHANGED db
                 /\ pc' = IF attempt < MaxRetries - 1 THEN "sleep" ELSE "fallback"
    /\ UNCHANGED <<path, fetchOutcome, total_rows, config, produced, checksRun,
                   results, validation_data, attempt, sleeps, fallbackCalls,
                   localFile, jsonFileOk, returned, batchVars, checkVars>>

\* data_validator 418: await asyncio.sleep(1), then the next pass
Sleep ==
    /\ pc = "sleep"
    /\ sleeps' = sleeps + 1
    /\ attempt' = attempt + 1
    /\ pc' = "insert"
    /\ UNCHANGED <<path, fetchOutcome, total_rows, config, produced, checksRun,
                   results, validation_data, inserts, db, fallbackCalls,
                   localFile, jsonFileOk, returned, batchVars, checkVars>>

\* data_validator 422-446 with _store_results_locally 448-471
StoreResultsLocally ==
    /\ pc = "fallback"
    /\ \E o \in {"ok", "fail"} :
         /\ localFile' = IF o = "ok"
                         THEN LocalFileContent(results, validation_data)
                         ELSE NoFile
         /\ IF StoreLocallyOutcome(o).raised
            THEN /\ returned' = ErrorDict
                 /\ pc' = "done"
            ELSE /\ pc' = "stored"
                 /\ UNCHANGED returned
    /\ fallbackCalls' = fallbackCalls + 1
    /\ UNCHANGED <<path, fetchOutcome, total_rows, config, produced, checksRun,
                   results, validation_data, attempt, inserts, sleeps, db,
                   jsonFileOk, batchVars, checkVars>>

\* idx 93-98
ReturnIdx ==
    /\ pc = "stored"
    /\ path = "idx"
    /\ results' = [results EXCEPT
                     !.anomalies = ApiAnomalies(produced, results.anomalies)]
    /\ returned' = results'
    /\ pc' = "done"
    /\ UNCHANGED <<path, fetchOutcome, total_rows, config, produced, checksRun,
                   validation_data, attempt, inserts, sleeps, db, fallbackCalls,
                   localFile, jsonFileOk, batchVars, checkVars>>

\* data_validator 76-87: the results file is written after the store; when
\* that write raises, validate_table returns the error dict
ReturnGeneric ==
    /\ pc = "stored"
    /\ path = "generic"
    /\ \E ok \in BOOLEAN :
         /\ jsonFileOk' = ok
         /\ returned' = IF ok THEN results ELSE ErrorDict
    /\ pc' = "done"
    /\ UNCHANGED <<path, fetchOutcome, total_rows, config, produced, checksRun,
                   results, validation_data, attempt, inserts, sleeps, db,
                   fallbackCalls, localFile, batchVars, checkVars>>

\* routes.py 165: result = await validator.validate_table(...) has returned
ValidateTableStarted(p) == p # "start"

ValidateTableReturned(p) == p = "done"

IsFlagged(a) == a.severity = "flagged"

\* email_helper 44-49: the anomalies whose severity is 'flagged'
FilteredAnomalies(anomalies) == SelectSeq(anomalies, IsFlagged)

\* validate_table puts json_file_path into the result of the generic path
\* (data_validator 77); the result of the specialized path has none
HasJsonFile(result) ==
    result.kind = "result" /\ path = "generic" /\ jsonFileOk

\* routes.py 165-172 with email_helper 22-92: the notifier is called when
\* the result counts anomalies; it calls send_validation_alert when an
\* anomaly passes its filter (the call passes a keyword the callee does not
\* take, so it raises and the except branch answers False), and removes the
\* results file on every branch
NotifyValidationComplete ==
    /\ rpc = "called"
    /\ ValidateTableReturned(pc)
    /\ IF returned.anomalies_count > 0
       THEN /\ notifier_calls' = notifier_calls + 1
            /\ alerts' = IF Len(FilteredAnomalies(returned.anomalies)) > 0
                         THEN alerts + 1 ELSE alerts
            /\ json_deleted' = HasJsonFile(returned)
       ELSE UNCHANGED <<notifier_calls, alerts, json_deleted>>
    /\ rpc' = "returned"
    /\ UNCHANGED <<runVars, exceptRoute>>

Next ==
    \/ NotifyValidationComplete
    \/ FetchData
    \/ ReadConfig
    \/ RunIdxChecks
    \/ RunGenericChecks
    \/ Aggregate
    \/ InsertAttempt
    \/ Sleep
    \/ StoreResultsLocally
    \/ ReturnIdx
    \/ ReturnGeneric

Spec == Init /\ [][Next]_vars

----------------------------------------------------------------------------
(* Properties of one validation run *)

\* positions at which results.anomalies is the list handed to
\* _store_validation_results (ReturnIdx puts the full list back afterwards)
StorePcs == {"insert", "sleep", "fallback", "stored"}

AllFailed(s) == \A i \in 1..Len(s) : s[i] = "fail"

CountSeverity(anoms, sev) ==
    Cardinality({i \in 1..Len(anoms) : anoms[i].severity = sev})

\* C1: the insert is attempted at most 3 times, one second is slept between
\* consecutive attempts, the local fallback is invoked only after three failed
\* attempts, and a successful attempt is the last one and leaves no fallback
\* file.
C1_RetryThenFallback ==
    /\ Len(inserts) <= 3
    /\ sleeps = IF pc = "insert" THEN Len(inserts)
                ELSE IF Len(inserts) = 0 THEN 0 ELSE Len(inserts) - 1
    /\ (fallbackCalls > 0 \/ pc = "fallback") =>
          (inserts = <<"fail", "fail", "fail">> /\ sleeps = 2)
    /\ (pc \in {"stored", "done"} /\ inserts # <<>> /\ AllFailed(inserts)) =>
          (Len(inserts) = 3 /\ fallbackCalls = 1)
    /\ \A i \in 1..Len(inserts) :
          inserts[i] = "ok" =>
             /\ i = Len(inserts)
             /\ pc \in {"stored", "done"}
             /\ fallbackCalls = 0
             /\ ~localFile.written

C1_Witness ==
    /\ pc = "done"
    /\ inserts = <<"fail", "fail", "fail">>
    /\ sleeps = 2
    /\ fallbackCalls = 1
    /\ localFile.written

\* what validate_table returns for the anomalies the checks produced, stated
\* without reference to any outcome of the store
ExpectedReturn ==
    IF path = "idx"
    THEN [kind |-> "result",
          status |-> IF CountSeverity(produced, "error") > 0
                     THEN "error" ELSE "success",
          anomalies_count |-> CountSeverity(produced, "error"),
          anomalies |-> produced,
          total_rows |-> total_rows]
    ELSE IF jsonFileOk
         THEN [kind |-> "result",
               status |-> StatusGeneric(Len(produced), Threshold(config)),
               anomalies_count |-> Len(produced),
               anomalies |-> produced,
               total_rows |-> total_rows]
         ELSE ErrorDict

\* C2: whatever the inserts and the local write do, the store step returns and
\* validate_table returns the result it computed, the same as after a
\* successful insert.
C2_PersistenceNeverPropagates ==
    (pc = "done" /\ results.kind = "result") => returned = ExpectedReturn

C2_Witness ==
    /\ pc = "done"
    /\ inserts = <<"fail", "fail", "fail">>
    /\ fallbackCalls = 1
    /\ ~localFile.written
    /\ returned.kind = "result"
    /\ returned.status = "error"
    /\ returned.anomalies_count > 0

\* C3 as stated: above 50,000 characters the payload is exactly 20 originals
\* followed by one marker, otherwise the list unchanged.
C3_AsStated ==
    pc \in StorePcs =>
       LET h == results.anomalies
           vd == validation_data
       IN IF JsonSize(h) > 50000
          THEN /\ Len(vd) = 21
               /\ SubSeq(vd, 1, 20) = SubSeq(h, 1, 20)
               /\ vd[21].type = "truncated_results"
          ELSE vd = h

\* C3 (amended): above 50,000 characters the payload is the first 20 anomalies
\* of the list (all of them when the list has fewer than 20), in order,
\* followed by exactly one truncation marker; at 50,000 characters or fewer
\* the payload is the list unchanged.
C3_TruncatedPayload ==
    pc \in StorePcs =>
       LET h == results.anomalies
           vd == validation_data
           k == IF Len(h) < 20 THEN Len(h) ELSE 20
       IN IF JsonSize(h) > 50000
          THEN /\ Len(vd) = k + 1
               /\ SubSeq(vd, 1, k) = SubSeq(h, 1, k)
               /\ vd[k + 1].type = "truncated_results"
               /\ \A i \in 1..k : vd[i].type # "truncated_results"
          ELSE vd = h

C3_Witness ==
    /\ pc = "stored"
    /\ JsonSize(results.anomalies) > 50000
    /\ Len(results.anomalies) > 20
    /\ Len(validation_data) = 21
    /\ validation_data[21].type = "truncated_results"
    /\ db = <<validation_data>>

\* C4: the anomaly list of the returned result is the list the checks
\* produced: same elements, all severities, same order.
C4_ReturnedListComplete ==
    (pc = "done" /\ returned.kind = "result") => returned.anomalies = produced

C4_Witness ==
    /\ pc = "done"
    /\ path = "idx"
    /\ returned.kind = "result"
    /\ Len(db) = 1
    /\ db[1] # <<>>
    /\ db[1][Len(db[1])].type = "truncated_results"
    /\ CountSeverity(returned.anomalies, "warning") > 0
    /\ Len(returned.anomalies) > Len(db[1])

\* C5 as stated: the fallback file holds every anomaly the run found.
C5_AsStated ==
    localFile.written => localFile.anomalies = produced

\* C5 (amended): the fallback file is written only after 3 failed inserts and
\* holds the untruncated list that was handed to the store: every anomaly on
\* the generic path, the error-severity anomalies on the specialized path;
\* never the 20+1 payload.
C5_FallbackFileUntruncated ==
    localFile.written =>
       /\ inserts = <<"fail", "fail", "fail">>
       /\ localFile.anomalies =
             IF path = "idx" THEN SelectSeq(produced, IsError) ELSE produced

C5_Witness ==
    /\ localFile.written
    /\ Len(validation_data) = 21
    /\ Len(localFile.anomalies) > 21

\* C6: on the specialized path anomalies_count is the number of error
\* anomalies, and status is error when it is positive and success otherwise.
C6_IdxCountAndStatus ==
    (path = "idx" /\ pc = "done" /\ returned.kind = "result") =>
       /\ returned.anomalies_count = CountSeverity(produced, "error")
       /\ returned.status =
             IF returned.anomalies_count > 0 THEN "error" ELSE "success"

C6_Witness ==
    /\ path = "idx"
    /\ pc = "done"
    /\ CountSeverity(produced, "warning") > 1
    /\ CountSeverity(produced, "error") = 0
    /\ returned.status = "success"
    /\ returned.anomalies_count = 0

\* C7 as stated: every anomaly of an inserted payload has severity error.
C7_AsStated ==
    path = "idx" =>
       \A k \in 1..Len(db) : \A i \in 1..Len(db[k]) :
          db[k][i].severity = "error"

\* C7 (amended): on the specialized path every anomaly of an inserted payload
\* that came from a check has severity error; the only other element is the
\* truncation marker (severity info), last in a truncated payload.
C7_PersistedErrorsOnly ==
    path = "idx" =>
       \A k \in 1..Len(db) : \A i \in 1..Len(db[k]) :
          \/ db[k][i].type = "check" /\ db[k][i].severity = "error"
          \/ /\ db[k][i].type = "truncated_results"
             /\ i = Len(db[k])
             /\ JsonSize(SelectSeq(produced, IsError)) > 50000

C7_Witness ==
    /\ path = "idx"
    /\ Len(db) = 1
    /\ Len(db[1]) > 1
    /\ db[1][Len(db[1])].type = "truncated_results"
    /\ CountSeverity(produced, "warning") > 0

C9_FetchFailureIsEmptySuccess ==
    (path = "idx" /\ fetchOutcome \in {"query_error", "exception", "no_rows"}) =>
       /\ total_rows = 0
       /\ checksRun = 0
       /\ returned.kind # "error_dict"
       /\ pc = "done" =>
             returned = [kind |-> "result", status |-> "success",
                         anomalies_count |-> 0, anomalies |-> <<>>,
                         total_rows |-> 0]

C9_Witness ==
    /\ path = "idx"
    /\ fetchOutcome = "query_error"
    /\ pc = "done"
    /\ returned.status = "success"
    /\ inserts # <<>>

------------------------------------------------------------\* the persistence step of the run is over: an insert succeeded, or all
\* three failed and _store_results_locally was called
PersistenceFinished ==
    /\ inserts # <<>>
    /\ \/ inserts[Len(inserts)] = "ok"
       \/ Len(inserts) = 3 /\ fallbackCalls = 1

\* C23: the route looks at the result and calls the notifier only when
\* validate_table has returned; a step that calls the notifier finds the
\* persistence step finished and touches neither the store nor the fallback
\* file, and none is touched afterwards; and from the first insert attempt
\* on, no check runs and the checks' anomalies do not change.
C23_NotifyAfterPersistence ==
    [][/\ rpc' # rpc => pc = "done" /\ pc' = "done"
       /\ notifier_calls' # notifier_calls =>
             /\ PersistenceFinished
             /\ UNCHANGED <<inserts, fallbackCalls, db, localFile>>
       /\ notifier_calls > 0 =>
             UNCHANGED <<inserts, fallbackCalls, db, localFile>>
       /\ (inserts # <<>> \/ inserts' # inserts) =>
             UNCHANGED <<produced, checksRun>>]_vars

C23_Witness ==
    /\ rpc = "returned"
    /\ notifier_calls = 1
    /\ inserts = <<"fail", "fail", "fail">>
    /\ fallbackCalls = 1
    /\ localFile.written
    /\ checksRun = 1

\* C25: a result handed to the notifier gets a send attempt exactly when
\* one of its anomalies has severity warning or error.
C25_AsStated ==
    (rpc = "returned" /\ notifier_calls > 0) =>
       (alerts > 0 <=>
          \E i \in 1..Len(returned.anomalies) :
             returned.anomalies[i].severity \in {"warning", "error"})

----------------
(* The batch orchestrators *)

\* names of self.idx_tables that the batch lists use (idx 21-35)
IdxRegistry == {"idx_daily_data", "idx_dividend", "idx_all_time_price"}

\* a dataset the route layer lists but the registry does not hold
GenericNames == {"idx_financial_sheets_annual"}

TableNames == IdxRegistry \cup GenericNames

SeqsUpTo(S, n) == UNION {[1..k -> S] : k \in 0..n}

IsInjective(s) == \A i, j \in 1..Len(s) : s[i] = s[j] => i = j

Orchestrators ==
    {"run_all_validations", "validate_multiple_tables", "validate_all_idx_tables"}

\* run_all_validations takes the list of get_tables (routes 29-134, which names
\* idx_financial_sheets_annual and _quarterly twice); validate_multiple_tables
\* takes the caller's list; validate_all_idx_tables a fixed list of distinct
\* registry names (validate_idx 70-76)
TableListsOf(o) ==
    IF o = "validate_all_idx_tables"
    THEN {s \in SeqsUpTo(IdxRegistry, MaxTables) : IsInjective(s)}
    ELSE SeqsUpTo(TableNames, MaxTables)

\* what IDXFinancialValidator.validate_table can return for a registry table
\* (idx 50-98): a result with status success or error
IdxOutcomes ==
    {[kind |-> "result", status |-> "success", anomalies_count |-> 0],
     [kind |-> "result", status |-> "error", anomalies_count |-> 2]}

\* what DataValidator.validate_table can return (data_validator 30-87): a
\* result with status success, warning or error, or the error dict
GenericOutcomes ==
    {[kind |-> "result", status |-> "success", anomalies_count |-> 0],
     [kind |-> "result", status |-> "warning", anomalies_count |-> 1],
     [kind |-> "result", status |-> "error", anomalies_count |-> 11],
     [kind |-> "error_dict", status |-> "error", anomalies_count |-> 0]}

\* the validator each orchestrator calls: NotificationDataValidator goes to
\* DataValidator.validate_table for every name (notification_validator 32)
ValidateTableOutcomes(o, name) ==
    IF o = "validate_multiple_tables" THEN GenericOutcomes
    ELSE IF name \in IdxRegistry THEN IdxOutcomes
    ELSE GenericOutcomes

Entry(name, r) ==
    [table_name |-> name, kind |-> r.kind, status |-> r.status,
     anomalies_count |-> r.anomalies_count]

\* the entry the except branches of the orchestrators build
ErrorEntry(name) ==
    [table_name |-> name, kind |-> "error_dict", status |-> "error",
     anomalies_count |-> 0]

\* EmailHelper.notify_validation_complete catches every exception
\* (email_helper 40-92)
NotifyRaises(r) == FALSE

\* validate_single_table returns None only from its except branch
\* (validate_idx 24-58); validate_table itself returns a dict
SingleTableIsNone(r) == FALSE

HasKey(d, name) == \E i \in 1..Len(d) : d[i].table_name = name

\* d[name] = e on a Python dict: a new key goes last, an existing key keeps
\* its place and takes the new value
DictSet(d, name, e) ==
    IF HasKey(d, name)
    THEN [i \in 1..Len(d) |-> IF d[i].table_name = name THEN e ELSE d[i]]
    ELSE Append(d, e)

InitBatch ==
    /\ pc = "idle"
    /\ path = "idx"
    /\ fetchOutcome = "none"
    /\ total_rows = 0
    /\ config = NoConfig
    /\ produced = <<>>
    /\ checksRun = 0
    /\ results = NoResult
    /\ validation_data = <<>>
    /\ attempt = 0
    /\ inserts = <<>>
    /\ sleeps = 0
    /\ db = <<>>
    /\ fallbackCalls = 0
    /\ localFile = NoFile
    /\ jsonFileOk = TRUE
    /\ returned = NoResult
    /\ orch \in Orchestrators
    /\ tables \in TableListsOf(orch)
    /\ bi = 1
    /\ bresults = <<>>
    /\ outcomes = <<>>
    /\ bpc = IF orch = "validate_all_idx_tables" THEN "init_database" ELSE "loop"
    /\ ChecksIdle
    /\ RouteIdle

\* validate_idx 65-68: without a database connection nothing is validated
InitDatabase ==
    /\ bpc = "init_database"
    /\ \E ok \in BOOLEAN : bpc' = IF ok THEN "loop" ELSE "aborted"
    /\ UNCHANGED <<checkVars, runVars, orch, tables, bi, bresults, outcomes>>

\* routes 209-227: one pass of the loop of run_all_validations
RunAllStep ==
    /\ orch = "run_all_validations"
    /\ bpc = "loop"
    /\ bi <= Len(tables)
    /\ \E r \in ValidateTableOutcomes(orch, tables[bi]) :
         /\ outcomes' = Append(outcomes, r)
         /\ bresults' =
               IF r.anomalies_count > 0 /\ NotifyRaises(r)
               THEN Append(Append(bresults, Entry(tables[bi], r)),
                           ErrorEntry(tables[bi]))
               ELSE Append(bresults, Entry(tables[bi], r))
    /\ bi' = bi + 1
    /\ UNCHANGED <<checkVars, runVars, orch, tables, bpc>>

\* notification_validator 71-91: one pass of validate_multiple_tables
MultipleStep ==
    /\ orch = "validate_multiple_tables"
    /\ bpc = "loop"
    /\ bi <= Len(tables)
    /\ \E r \in ValidateTableOutcomes(orch, tables[bi]) :
         /\ outcomes' = Append(outcomes, r)
         /\ bresults' = DictSet(bresults, tables[bi], Entry(tables[bi], r))
    /\ bi' = bi + 1
    /\ UNCHANGED <<checkVars, runVars, orch, tables, bpc>>

\* validate_idx 81-85: one pass of validate_all_idx_tables
IdxAllStep ==
    /\ orch = "validate_all_idx_tables"
    /\ bpc = "loop"
    /\ bi <= Len(tables)
    /\ \E r \in ValidateTableOutcomes(orch, tables[bi]) :
         /\ outcomes' = Append(outcomes, r)
         /\ bresults' =
               IF SingleTableIsNone(r) THEN bresults
               ELSE DictSet(bresults, tables[bi], Entry(tables[bi], r))
    /\ bi' = bi + 1
    /\ UNCHANGED <<checkVars, runVars, orch, tables, bpc>>

\* routes 229-244, notification_validator 93-97, validate_idx 87-112
BatchReturn ==
    /\ bpc = "loop"
    /\ bi > Len(tables)
    /\ bpc' = "done"
    /\ UNCHANGED <<checkVars, runVars, orch, tables, bi, bresults, outcomes>>

NextBatch ==
    \/ InitDatabase
    \/ RunAllStep
    \/ MultipleStep
    \/ IdxAllStep
    \/ BatchReturn

SpecBatch == InitBatch /\ [][NextBatch]_vars

\* C10: when a batch has gone through its list, the results hold exactly one
\* entry per element of the list, in list order; every element was validated;
\* and the entry of a dataset whose validation failed has status error.
C10_AsStated ==
    bpc = "done" =>
       /\ Len(outcomes) = Len(tables)
       /\ Len(bresults) = Len(tables)
       /\ \A i \in 1..Len(tables) :
             /\ bresults[i].table_name = tables[i]
             /\ outcomes[i].kind = "error_dict" => bresults[i].status = "error"

----------------------------------------------------------------------------
(* One registry check function, from its call in validate_table (idx 64-71) *)
(* to the aggregation of its anomalies (idx 79-91)                          *)

RegistryFns ==
    {"_validate_financial_annual", "_validate_financial_quarterly",
     "_validate_daily_data", "_validate_daily_data_completeness_and_coverage",
     "_validate_index_daily_data", "_validate_dividend",
     "_validate_all_time_price", "_validate_filings", "_validate_stock_split",
     "_validate_news", "_validate_sgx_company_report",
     "_validate_sgx_manual_input", "_validate_company_profile"}

\* the columns each function reports as a missing required column
required_cols(f) ==
    CASE f = "_validate_financial_annual" ->
           {"date", "symbol", "revenue", "earnings", "total_assets"}
      [] f = "_validate_financial_quarterly" ->
           {"date", "symbol", "total_revenue", "earnings", "total_assets"}
      [] f = "_validate_daily_data" -> {"date", "symbol", "close"}
      [] f = "_validate_daily_data_completeness_and_coverage" ->
           {"date", "symbol", "close", "volume", "market_cap"}
      [] f = "_validate_index_daily_data" -> {"date", "index_code"}
      [] f = "_validate_dividend" -> {"symbol", "yield", "date"}
      [] f = "_validate_all_time_price" -> {"symbol", "type", "date", "price"}
      [] f = "_validate_filings" -> {"timestamp", "tickers", "price"}
      [] f = "_validate_stock_split" -> {"symbol", "date", "split_ratio"}
      [] f = "_validate_news" -> {"sub_sector"}
      [] f = "_validate_sgx_company_report" ->
           {"market_cap", "volume", "close", "historical_financials"}
      [] f = "_validate_company_profile" -> {"symbol", "shareholders"}
      [] OTHER -> {}

\* _validate_sgx_company_report tests each column where it uses it and goes
\* on (idx 1149-1251); every other function tests its columns first
ChecksColumnsFirst(f) == f # "_validate_sgx_company_report"

SchemaAnomalyType(f) ==
    IF f = "_validate_index_daily_data" THEN "schema_missing_column"
    ELSE "missing_required_columns"

\* idx 1155, 1177, 1250
MissingSeverity(col) ==
    IF col = "historical_financials" THEN "warning" ELSE "error"

\* type of the anomaly built by the except branch of the function
ExceptionType(f) ==
    IF f \in {"_validate_index_daily_data",
              "_validate_daily_data_completeness_and_coverage"}
    THEN "validation_exception"
    ELSE "validation_error"

\* the rule sets of a function, in the order of its body
Sections(f) ==
    CASE f \in {"_validate_financial_annual", "_validate_financial_quarterly"} ->
           <<"extreme_change", "revenue_gt_earnings", "identity_ratio">>
      [] f = "_validate_sgx_company_report" ->
           <<"market_cap", "volume", "close", "historical_financials">>
      [] f = "_validate_filings" ->
           <<"price_discrepancy", "duplicate_transaction">>
      [] OTHER -> <<"rules">>

Site(t, sev) == [type |-> t, severity |-> sev]

\* type and severity of the anomalies a rule set can append
SectionSites(f, s) ==
    CASE s = "extreme_change" ->
           {Site(IF f = "_validate_financial_annual"
                 THEN "extreme_annual_change" ELSE "extreme_quarterly_change",
                 "error")}
      [] s = "revenue_gt_earnings" -> {Site("business_rule_violation", "error")}
      [] s = "identity_ratio" ->
           {Site("identity_violation", "error"),
            Site("identity_violation", "warning"),
            Site("identity_violation", "info"),
            Site("data_missing", "info"),
            Site("ratio_out_of_range", "warning"),
            Site("ratio_out_of_range", "info")}
      [] s \in {"market_cap", "volume"} -> {Site("data_missing", "error")}
      [] s = "close" ->
           {Site("data_missing", "error"), Site("staleness", "warning")}
      [] s = "historical_financials" -> {Site("extreme_change_sgx", "warning")}
      [] s = "price_discrepancy" ->
           {Site("filing_price_discrepancy", "warning")}
      [] s = "duplicate_transaction" -> {Site("duplicate_transaction", "error")}
      [] f = "_validate_daily_data" ->
           {Site("extreme_daily_price_change", "warning")}
      [] f = "_validate_daily_data_completeness_and_coverage" ->
           {Site("reference_table_fetch_error", "error"),
            Site("invalid_date_values", "error"),
            Site("daily_symbol_coverage_mismatch", "error"),
            Site("daily_required_fields_null", "error")}
      [] f = "_validate_index_daily_data" ->
           {Site("index_daily_data_count_mismatch", "error")}
      [] f = "_validate_dividend" ->
           {Site("high_average_yield_per_year", "warning"),
            Site("large_average_yield_change_per_year", "warning")}
      [] f = "_validate_all_time_price" ->
           {Site("price_data_inconsistency", "error")}
      [] f = "_validate_stock_split" -> {Site("close_stock_splits", "warning")}
      [] f = "_validate_news" ->
           {Site("invalid_sub_sector_format", "error"),
            Site("invalid_subsector_length", "error"),
            Site("duplicate_subsector_entries", "error")}
      [] f = "_validate_sgx_manual_input" ->
           {Site("missing_required_data", "error"),
            Site("business_rule_violation", "error"),
            Site("validation_error", "error")}
      [] OTHER ->
           {Site("missing_shareholders", "warning"),
            Site("invalid_shareholders_format", "error"),
            Site("invalid_shareholders_type", "error"),
            Site("empty_shareholders", "warning"),
            Site("invalid_shareholder_entries", "error"),
            Site("shareholders_percentage_mismatch", "error")}

\* type and severity of the anomalies of the generic validations
GenericSites ==
    {Site("statistical_outlier", "warning"),
     Site("missing_required_fields", "error"),
     Site("duplicate_values", "warning"),
     Site("value_out_of_range", "error"),
     Site("high_null_percentage", "warning"),
     Site("invalid_email_format", "error"),
     Site("data_gaps", "warning"),
     Site("unusual_volume_change", "warning"),
     Site("time_series_validation_error", "error")}

\* len(data) of the frames the model passes: no row, one row, and the two
\* sizes around the volume test of the periodic financial checks
RowCounts == {0, 1, 10, 11}

\* data.empty
Empty(n) == n = 0

\* idx 730, 971: the functions that return at once on an empty frame
ReturnsOnEmpty(f) ==
    f \in {"_validate_index_daily_data",
           "_validate_daily_data_completeness_and_coverage"}

SufficientVolumeAtLeastTen(n) == n >= 10

\* idx 703, 878: if len(data) > 10
SufficientVolume(n) == n > 10

\* whether a rule set of the function gets to look at any row
SectionHasRows(s, n) ==
    IF s = "identity_ratio" THEN SufficientVolume(n) ELSE ~Empty(n)

\* serialized sizes of the anomalies of a check: a short record, and one
\* whose details make two of them exceed the size limit of the store
CheckSizes == {100, 30000}

AppendAnomaly(list, t, sev, z) ==
    Append(list, [id |-> Len(list) + 1, type |-> t, severity |-> sev,
                  size |-> z])

InitCheck ==
    /\ MoreIdle
    /\ RunIdle
    /\ BatchIdle
    /\ fn \in RegistryFns
    /\ missing \in SUBSET required_cols(fn)
    /\ data_rows \in RowCounts
    /\ cpc = "schema"
    /\ si = 1
    /\ canoms = <<>>
    /\ sectionsRun = <<>>
    /\ raisedIn = "none"
    /\ cresult = NoCheckResult
    /\ WindowIdle
    /\ IdentityIdle
    /\ ExtremeIdle
    /\ FilingsIdle
    /\ PriceIdle

\* the test of required_cols at the head of the function (e.g. idx 615-625)
CheckRequiredColumns ==
    /\ cpc = "schema"
    /\ IF ReturnsOnEmpty(fn) /\ Empty(data_rows)
       THEN /\ cpc' = "returned"
            /\ UNCHANGED canoms
       ELSE IF ChecksColumnsFirst(fn) /\ missing # {}
       THEN /\ canoms' = AppendAnomaly(canoms, SchemaAnomalyType(fn), "error", 100)
            /\ cpc' = "returned"
       ELSE /\ cpc' = "sections"
            /\ UNCHANGED canoms
    /\ UNCHANGED <<fn, missing, data_rows, si, sectionsRun, raisedIn, cresult,
                   runVars, batchVars, windowVars,
                   identityVars, extremeVars, filingsVars, priceVars, moreVars>>

\* one rule set of the function; an exception raised in it reaches the
\* except branch of the function (e.g. idx 713-720), which appends one
\* anomaly and returns
RunSection ==
    /\ cpc = "sections"
    /\ si <= Len(Sections(fn))
    /\ LET s == Sections(fn)[si]
       IN /\ sectionsRun' = Append(sectionsRun, s)
          /\ \/ /\ s \in missing
                /\ canoms' = AppendAnomaly(canoms, SchemaAnomalyType(fn),
                                           MissingSeverity(s), 100)
                /\ si' = si + 1
                /\ UNCHANGED <<cpc, raisedIn>>
             \/ /\ s \notin missing
                /\ \E e \in SectionSites(fn, s), z \in CheckSizes,
                      k \in 0..2 :
                      /\ ~SectionHasRows(s, data_rows) => k = 0
                      /\ canoms' =
                            IF k = 0 THEN canoms
                            ELSE IF k = 1
                            THEN AppendAnomaly(canoms, e.type, e.severity, z)
                            ELSE AppendAnomaly(
                                   AppendAnomaly(canoms, e.type, e.severity, z),
                                   e.type, e.severity, z)
                /\ si' = si + 1
                /\ UNCHANGED <<cpc, raisedIn>>
             \/ /\ s \notin missing
                /\ SectionHasRows(s, data_rows)
                /\ canoms' = AppendAnomaly(canoms, ExceptionType(fn), "error", 100)
                /\ raisedIn' = s
                /\ cpc' = "returned"
                /\ UNCHANGED si
    /\ UNCHANGED <<fn, missing, data_rows, cresult, runVars, batchVars, windowVars,
                   identityVars, extremeVars, filingsVars, priceVars, moreVars>>

\* return {"anomalies": anomalies} at the end of the function
CheckReturn ==
    /\ cpc = "sections"
    /\ si > Len(Sections(fn))
    /\ cpc' = "returned"
    /\ UNCHANGED <<fn, missing, data_rows, si, canoms, sectionsRun, raisedIn, cresult,
                   runVars, batchVars, windowVars,
                   identityVars, extremeVars, filingsVars, priceVars, moreVars>>

\* idx 71-91 and data_validator 387-404: validate_table counts the error
\* anomalies and builds the payload of the store
AggregateCheck ==
    /\ cpc = "returned"
    /\ LET errs == ErrorAnomalies(canoms)
       IN cresult' = [status |-> StatusIdx(Len(errs)),
                      anomalies_count |-> Len(errs),
                      anomalies |-> canoms,
                      payload |-> Truncate(errs)]
    /\ cpc' = "aggregated"
    /\ UNCHANGED <<fn, missing, data_rows, si, canoms, sectionsRun, raisedIn,
                   runVars, batchVars, windowVars,
                   identityVars, extremeVars, filingsVars, priceVars, moreVars>>

NextCheck ==
    \/ CheckRequiredColumns
    \/ RunSection
    \/ CheckReturn
    \/ AggregateCheck

SpecCheck == InitCheck /\ [][NextCheck]_vars

\* C11: when a required column is absent the check returns exactly one
\* anomaly, of severity error, and runs no rule set.
C11_AsStated ==
    (cpc \in {"returned", "aggregated"} /\ missing # {}) =>
       /\ Len(canoms) = 1
       /\ canoms[1].severity = "error"
       /\ sectionsRun = <<>>

\* C12: an exception raised in one rule set becomes a validation_error
\* anomaly of severity error, the other rule sets of the function still run,
\* and the run is aggregated.
C12_AsStated ==
    (cpc = "aggregated" /\ raisedIn # "none") =>
       /\ \E i \in 1..Len(canoms) :
             canoms[i].type = "validation_error" /\ canoms[i].severity = "error"
       /\ \A k \in 1..Len(Sections(fn)) :
             \E j \in 1..Len(sectionsRun) : sectionsRun[j] = Sections(fn)[k]
       /\ cresult.status = "error"

Tiers == {"info", "warning", "error"}

SeveritiesIn(anoms) == {anoms[i].severity : i \in 1..Len(anoms)}

\* C13: every anomaly of the list a check returns, of the result
\* validate_table returns and of the payload handed to the store, the
\* anomalies built from exceptions and the truncation marker included, has
\* severity info, warning or error; so has every anomaly the generic
\* validations can build.
C13_SeverityInTiers ==
    /\ SeveritiesIn(canoms) \subseteq Tiers
    /\ SeveritiesIn(cresult.anomalies) \subseteq Tiers
    /\ SeveritiesIn(cresult.payload) \subseteq Tiers
    /\ {g.severity : g \in GenericSites} \subseteq Tiers

C13_Witness ==
    /\ cpc = "aggregated"
    /\ raisedIn # "none"
    /\ Len(cresult.payload) > 1
    /\ cresult.payload[Len(cresult.payload)].type = "truncated_results"
    /\ cresult.payload[Len(cresult.payload) - 1].type = "validation_error"
    /\ \E i \in 1..Len(cresult.anomalies) :
          cresult.anomalies[i].severity = "warning"

\* C21: a registry function called with a frame of zero rows returns an
\* empty anomalies list, and no exception is raised in it.
C21_AsStated ==
    (cpc \in {"returned", "aggregated"} /\ Empty(data_rows)) =>
       /\ canoms = <<>>
       /\ raisedIn = "none"

PeriodicFns == {"_validate_financial_annual", "_validate_financial_quarterly"}

IdentityRatioTypes == {"identity_violation", "data_missing", "ratio_out_of_range"}

\* C30: the annual and the quarterly check on a frame of 10 rows or fewer
\* return no identity_violation, no data_missing and no ratio_out_of_range
\* anomaly.
C30_IdentityChecksNeedMoreThanTenRows ==
    (fn \in PeriodicFns /\ data_rows <= 10) =>
       \A i \in 1..Len(canoms) : canoms[i].type \notin IdentityRatioTypes

C30_Witness ==
    /\ fn = "_validate_financial_quarterly"
    /\ data_rows = 10
    /\ cpc = "returned"
    /\ sectionsRun =
          <<"extreme_change", "revenue_gt_earnings", "identity_ratio">>
    /\ Len(canoms) = 2
    /\ canoms[2].type = "business_rule_violation"

----------------------------------------------------------------------------
(* The default date window of _fetch_table_data_with_filter (idx 112-135) *)

MaxDays == 14
FirstDay == 700

\* datetime.weekday(): Monday is 0, Sunday is 6
Weekday(d) == d % 7

WindowTables ==
    {"idx_daily_data_completeness", "idx_daily_data", "index_daily_data",
     "idx_combine_financials_quarterly", "idx_dividend"}

\* alias_map.get(table_name, table_name)
QueryTable(t) == IF t = "idx_daily_data_completeness" THEN "idx_daily_data" ELSE t

\* idx 121-126: 3 days back on a Monday, 1 day back otherwise
CompletenessWindow(tbl, t, sd, ed) ==
    IF tbl = "idx_daily_data_completeness" /\ ~sd.given /\ ~ed.given
    THEN LET days == IF Weekday(t) = 0 THEN 3 ELSE 1
         IN [start |-> Date(t - days), end |-> Date(t - days)]
    ELSE [start |-> sd, end |-> ed]

\* idx 121-135: the completeness default first, then the defaults by table
DefaultWindow(tbl, t, sd, ed) ==
    LET c == CompletenessWindow(tbl, t, sd, ed)
        q == QueryTable(tbl)
        none == ~c.start.given /\ ~c.end.given
    IN IF q = "idx_daily_data" /\ none
       THEN [start |-> Date(t - 7), end |-> Date(t - 1)]
       ELSE IF q = "index_daily_data" /\ none
       THEN [start |-> Date(t - 7), end |-> Date(t)]
       ELSE IF q = "idx_combine_financials_quarterly" /\ none
       THEN [start |-> Date(t - 365), end |-> Date(t)]
       ELSE c

InitWindow ==
    /\ MoreIdle
    /\ RunIdle
    /\ BatchIdle
    /\ FnIdle
    /\ IdentityIdle
    /\ ExtremeIdle
    /\ FilingsIdle
    /\ PriceIdle
    /\ today \in FirstDay..(FirstDay + MaxDays - 1)
    /\ win_table \in WindowTables
    /\ start_date \in {NoDate, Date(FirstDay - 3)}
    /\ end_date \in {NoDate, Date(FirstDay - 2)}
    /\ applied = [start |-> NoDate, end |-> NoDate]
    /\ wpc = "call"

\* idx 118-135 and 266/269: the dates are defaulted before the query, and the
\* defaulted dates are returned whether or not the query succeeds
ApplyDefaultWindow ==
    /\ wpc = "call"
    /\ applied' = DefaultWindow(win_table, today, start_date, end_date)
    /\ wpc' = "returned"
    /\ UNCHANGED <<today, win_table, start_date, end_date,
                   runVars, batchVars, fnVars, identityVars, extremeVars,
                   filingsVars, priceVars, moreVars>>

NextWindow == ApplyDefaultWindow

SpecWindow == InitWindow /\ [][NextWindow]_vars

\* the latest Monday-to-Friday date strictly before t
MostRecentBusinessDay(t) ==
    CHOOSE d \in (t - 7)..(t - 1) :
       /\ Weekday(d) < 5
       /\ \A e \in (d + 1)..(t - 1) : Weekday(e) >= 5

\* C14: for the completeness dataset, when the fetch is called with no
\* window, the applied start and end are both the most recent business day
\* strictly before today, whatever the weekday of today; the date is never a
\* Saturday or a Sunday, and it is not the 7-day window.
C14_AsStated ==
    (wpc = "returned" /\ win_table = "idx_daily_data_completeness"
        /\ ~start_date.given /\ ~end_date.given) =>
       /\ applied.start = applied.end
       /\ applied.start = Date(MostRecentBusinessDay(today))
       /\ Weekday(applied.start.day) \notin {5, 6}

----------------------------------------------------------------------------
(* _add_identity_anomalies (idx 291-479) on a frame of one row.  Amounts are *)
(* counted in units of 1e8, so that 1e9 is 10 and 5e8 is 5.                 *)

NaN == [isna |-> TRUE, v |-> 0]
Num(x) == [isna |-> FALSE, v |-> x]

Abs(x) == IF x < 0 THEN 0 - x ELSE x

HasColumns(r, cols) == cols \subseteq DOMAIN r

\* dropna(how='any') keeps the row
NotNa(r, cols) == \A c \in cols : ~r[c].isna

\* fillna(0)
FillNa(c) == IF c.isna THEN 0 ELSE c.v

Max(a, b) == IF a >= b THEN a ELSE b

ToleranceSigned(base, pct, abs_tol) == Max(base * pct, abs_tol * 100)

\* idx 271-273: np.maximum(base.abs() * rel, abs_tol), with rel = pct / 100;
\* the value is 100 times the tolerance, to stay in the integers
Tolerance(base, pct, abs_tol) == Max(Abs(base) * pct, abs_tol * 100)

ExceedsAbsoluteFloor(diff, base, pct, abs_tol) == Abs(diff) > abs_tol

\* "diff.abs() > tol" with tol = self._tolerance(base, pct / 100, abs_tol)
ExceedsTolerance(diff, base, pct, abs_tol) ==
    Abs(diff) * 100 > Tolerance(base, pct, abs_tol)

islamic_banks == {"BANK.JK", "BRIS.JK", "BSIM.JK", "PNBS.JK", "BTPS.JK"}

Violation(metric, sev) ==
    [type |-> "identity_violation", metric |-> metric, severity |-> sev]

\* idx 322-331: diff_pct = abs(diff) / abs(base) * 100 against 11.0 and 5.0
\* (base is 1.0 when total_assets is 0; diff then exceeds 1e9, so the tier
\* is the same whatever the unit of the 1.0)
IdentitySeverity(diff, assets) ==
    LET base == IF assets = 0 THEN 1 ELSE Abs(assets)
    IN IF Abs(diff) * 100 > 11 * base THEN "error"
       ELSE IF Abs(diff) * 100 > 5 * base THEN "warning"
       ELSE "info"

\* idx 304-341
AssetsIdentity(r) ==
    LET cols == {"total_assets", "total_liabilities", "total_equity"}
    IN IF HasColumns(r, {"total_assets", "total_liabilities"})
          /\ r.symbol \notin islamic_banks /\ NotNa(r, cols)
       THEN LET lhs == r.total_assets.v
                rhs == r.total_liabilities.v + r.total_equity.v
            IN IF ExceedsTolerance(lhs - rhs, lhs, 10, 10)
               THEN <<Violation("assets=liabilities+equity",
                                IdentitySeverity(lhs - rhs, lhs))>>
               ELSE <<>>
       ELSE <<>>

\* idx 343-361
NetLoanIdentity(r) ==
    LET cols == {"gross_loan", "allowance_for_loans", "net_loan"}
    IN IF HasColumns(r, cols) /\ NotNa(r, cols)
       THEN LET expected == r.gross_loan.v - Abs(r.allowance_for_loans.v)
            IN IF ExceedsTolerance(r.net_loan.v - expected, expected, 2, 10)
               THEN <<Violation("net_loan=gross_loan-allowance", "warning")>>
               ELSE <<>>
       ELSE <<>>

\* idx 363-384
EbtIdentity(r) ==
    LET cols == {"earnings_before_tax", "earnings", "tax"}
        subset_cols == cols \cup ({"minorities"} \cap DOMAIN r)
    IN IF HasColumns(r, cols) /\ NotNa(r, subset_cols)
       THEN LET ebt == r.earnings_before_tax.v
                opt == r.earnings.v + r.tax.v
                opt2 == opt + (IF "minorities" \in DOMAIN r
                               THEN r.minorities.v ELSE 0)
            IN IF ExceedsTolerance(ebt - opt, ebt, 5, 10)
                  /\ ExceedsTolerance(ebt - opt2, ebt, 5, 10)
               THEN <<Violation("ebt=earnings+tax(+minorities)", "warning")>>
               ELSE <<>>
       ELSE <<>>

\* idx 386-420
NetCashFlowIdentity(r) ==
    LET comps == {"net_operating_cash_flow", "net_investing_cash_flow",
                  "net_financing_cash_flow"}
        cols == comps \cup {"net_cash_flow"}
    IN IF HasColumns(r, cols)
       THEN (IF r.net_cash_flow.isna /\ NotNa(r, comps)
             THEN <<[type |-> "data_missing", metric |-> "net_cash_flow",
                     severity |-> "info"]>>
             ELSE <<>>)
            \o
            (IF NotNa(r, cols)
             THEN LET expected == r.net_operating_cash_flow.v
                                  + r.net_investing_cash_flow.v
                                  + r.net_financing_cash_flow.v
                  IN IF ExceedsTolerance(r.net_cash_flow.v - expected,
                                         expected, 5, 10)
                     THEN <<Violation("net_cash_flow=sum(CFO,CFI,CFF)",
                                      "warning")>>
                     ELSE <<>>
             ELSE <<>>)
       ELSE <<>>

\* idx 422-444, first row of the frame: a lookup that raises or finds no
\* company leaves sub_sector_id unset, and the except branch skips the row;
\* a comparison with NaN is False
FreeCashFlowIdentity(r, co) ==
    LET cols == {"free_cash_flow", "net_operating_cash_flow",
                 "capital_expenditure"}
    IN IF HasColumns(r, cols \cup {"symbol"}) /\ co = "other"
          /\ NotNa(r, cols)
       THEN LET expected == r.net_operating_cash_flow.v
                            - r.capital_expenditure.v
            IN IF ExceedsTolerance(r.free_cash_flow.v - expected,
                                   expected, 5, 5)
               THEN <<Violation("free_cash_flow=CFO-capex", "info")>>
               ELSE <<>>
       ELSE <<>>

\* idx 464-477: every operand goes through fillna(0)
DepositsIdentity(r) ==
    LET cols == {"total_deposit", "current_account", "savings_account",
                 "time_deposit"}
    IN IF HasColumns(r, cols)
       THEN LET comp == FillNa(r.current_account) + FillNa(r.savings_account)
                        + FillNa(r.time_deposit)
                total_dep == FillNa(r.total_deposit)
            IN IF ExceedsTolerance(total_dep - comp, total_dep, 3, 10)
               THEN <<Violation("total_deposit=components", "info")>>
               ELSE <<>>
       ELSE <<>>

\* the frames the model runs the identities on: one row that has a symbol
\* and the columns of one identity
Cells(S) == {NaN} \cup {Num(x) : x \in S}

IdentityRows ==
    [symbol : {"BRIS.JK", "BBCA.JK"}, total_assets : Cells({0, 10000}),
     total_liabilities : Cells({4000}),
     total_equity : Cells({6000, 5501, 5500, 5000, 4999, 4901, 4900, 4899,
                           7100})]
    \cup
    [symbol : {"BBCA.JK"}, gross_loan : Cells({1000}),
     allowance_for_loans : Cells({100, 0 - 100}), net_loan : Cells({900, 700})]
    \cup
    [symbol : {"BBCA.JK"}, earnings_before_tax : Cells({1000}),
     earnings : Cells({700}), tax : Cells({300, 100})]
    \cup
    [symbol : {"BBCA.JK"}, earnings_before_tax : Cells({1000}),
     earnings : Cells({700}), tax : Cells({300, 100}),
     minorities : Cells({0, 200})]
    \cup
    [symbol : {"BBCA.JK"}, net_operating_cash_flow : Cells({500}),
     net_investing_cash_flow : Cells({0 - 200}),
     net_financing_cash_flow : Cells({0 - 100}),
     net_cash_flow : Cells({200, 500})]
    \cup
    [symbol : {"BBCA.JK"}, free_cash_flow : Cells({300, 900}),
     net_operating_cash_flow : Cells({500}),
     capital_expenditure : Cells({200})]
    \cup
    [symbol : {"BBCA.JK"}, total_deposit : Cells({1000}),
     current_account : Cells({400}), savings_account : Cells({300}),
     time_deposit : Cells({300})]

CompanyLookups == {"other", "sector19", "empty", "raises"}

InitIdentity ==
    /\ MoreIdle
    /\ RunIdle
    /\ BatchIdle
    /\ FnIdle
    /\ WindowIdle
    /\ ExtremeIdle
    /\ FilingsIdle
    /\ PriceIdle
    /\ df_row \in IdentityRows
    /\ company \in CompanyLookups
    /\ ianoms = <<>>
    /\ ipc = "call"

\* idx 291-479: the identities in the order of the function
AddIdentityAnomalies ==
    /\ ipc = "call"
    /\ ianoms' = AssetsIdentity(df_row) \o NetLoanIdentity(df_row)
                 \o EbtIdentity(df_row) \o NetCashFlowIdentity(df_row)
                 \o FreeCashFlowIdentity(df_row, company)
                 \o DepositsIdentity(df_row)
    /\ ipc' = "returned"
    /\ UNCHANGED <<df_row, company, runVars, batchVars, fnVars, windowVars,
                   extremeVars, filingsVars, priceVars, moreVars>>

NextIdentity == AddIdentityAnomalies

SpecIdentity == InitIdentity /\ [][NextIdentity]_vars

\* the columns that take part in an identity
ParticipatingColumns(metric) ==
    CASE metric = "assets=liabilities+equity" ->
           {"total_assets", "total_liabilities", "total_equity"}
      [] metric = "net_loan=gross_loan-allowance" ->
           {"gross_loan", "allowance_for_loans", "net_loan"}
      [] metric = "ebt=earnings+tax(+minorities)" ->
           {"earnings_before_tax", "earnings", "tax"}
           \cup ({"minorities"} \cap DOMAIN df_row)
      [] metric = "net_cash_flow=sum(CFO,CFI,CFF)" ->
           {"net_operating_cash_flow", "net_investing_cash_flow",
            "net_financing_cash_flow", "net_cash_flow"}
      [] metric = "free_cash_flow=CFO-capex" ->
           {"free_cash_flow", "net_operating_cash_flow", "capital_expenditure"}
      [] OTHER ->
           {"total_deposit", "current_account", "savings_account",
            "time_deposit"}

\* C15: an identity_violation anomaly is raised only for a row whose
\* participating columns are all non-null.
C15_AsStated ==
    \A i \in 1..Len(ianoms) :
       ianoms[i].type = "identity_violation" =>
          NotNa(df_row, ParticipatingColumns(ianoms[i].metric))

\* deviation of the assets identity in hundredths of a percent of assets
DeviationBp ==
    (Abs(df_row.total_assets.v
         - (df_row.total_liabilities.v + df_row.total_equity.v)) * 10000)
    \div df_row.total_assets.v

SeverityReported(sev) ==
    ianoms = <<Violation("assets=liabilities+equity", sev)>>

\* C16: a deviation of the assets identity of exactly 11.0% is reported with
\* severity error, 11.01% error, 10.99% warning, exactly 5.0% warning and
\* 4.99% info.
C16_AsStated ==
    (ipc = "returned" /\ "total_assets" \in DOMAIN df_row
        /\ df_row.symbol \notin islamic_banks
        /\ NotNa(df_row, {"total_assets", "total_liabilities", "total_equity"})
        /\ df_row.total_assets.v > 0) =>
       /\ DeviationBp = 1100 => SeverityReported("error")
       /\ DeviationBp = 1101 => SeverityReported("error")
       /\ DeviationBp = 1099 => SeverityReported("warning")
       /\ DeviationBp = 500 => SeverityReported("warning")
       /\ DeviationBp = 499 => SeverityReported("info")

AssetsAnomalies ==
    {i \in 1..Len(ianoms) : ianoms[i].metric = "assets=liabilities+equity"}

AssetsDiff ==
    Abs(df_row.total_assets.v
        - (df_row.total_liabilities.v + df_row.total_equity.v))

\* C28: an anomaly of the assets identity never has severity info; when
\* total assets is not zero its deviation is above 10% of total assets, and
\* its severity is warning exactly for a deviation of at most 11%.
C28_AssetsAnomalyAboveTenPercent ==
    ipc = "returned" =>
       \A i \in AssetsAnomalies :
          /\ ianoms[i].severity # "info"
          /\ df_row.total_assets.v # 0 =>
                /\ AssetsDiff * 100 > 10 * Abs(df_row.total_assets.v)
                /\ ianoms[i].severity = "warning" <=>
                      AssetsDiff * 100 <= 11 * Abs(df_row.total_assets.v)

C28_Witness ==
    /\ ipc = "returned"
    /\ AssetsAnomalies # {}
    /\ df_row.total_assets.v = 10000
    /\ AssetsDiff = 1001
    /\ SeverityReported("warning")

----------------------------------------------------------------------------
(* The extreme-change rule of the periodic financial checks for one symbol *)
(* and one metric (idx 636-682 annual, 824-858 quarterly)                  *)

MaxPeriods == 7

\* values of the metric; every percentage change between two of them is a
\* multiple of 1 / PctScale percent
MetricValues == {0 - 100, 100, 400}
PctScale == 4 * 100

Histories == UNION {[1..n -> Cells(MetricValues)] : n \in 0..MaxPeriods}

\* len(symbol_data) < 2 (idx 639) and < 4 (idx 826)
MinRows(f) == IF f = "annual" THEN 2 ELSE 4

\* changes.abs() > 75 (idx 667) and > 100 (idx 844)
ChangeFloor(f) == IF f = "annual" THEN 75 ELSE 100

AvgMultipleTenthsBefore(f) == 15

\* avg_abs_change * 2.0 (idx 667) and * 2.5 (idx 844), as tenths
AvgMultipleTenths(f) == IF f = "annual" THEN 20 ELSE 25

\* pct_change(fill_method=None) * 100 at row i, times PctScale; NaN when
\* either value is null
HasChange(h, i) == i > 1 /\ ~h[i].isna /\ ~h[i - 1].isna

AbsChange(h, i) ==
    Abs(h[i].v - h[i - 1].v) * 100 * (PctScale \div Abs(h[i - 1].v))

RECURSIVE SumAbsChanges(_, _)
SumAbsChanges(h, i) ==
    IF i < 2 THEN 0
    ELSE (IF HasChange(h, i) THEN AbsChange(h, i) ELSE 0)
         + SumAbsChanges(h, i - 1)

\* changes = ...dropna()
Changes(h) == {i \in 1..Len(h) : HasChange(h, i)}

\* changes[(changes.abs() > floor) & (changes.abs() > avg_abs_change * m)]
ExtremePctChanges(h, f) ==
    {i \in Changes(h) :
        /\ AbsChange(h, i) > ChangeFloor(f) * PctScale
        /\ AbsChange(h, i) * Cardinality(Changes(h)) * 10
              > AvgMultipleTenths(f) * SumAbsChanges(h, Len(h))}

ExtremeChangeAtLeastOne(h, f) ==
    IF Len(h) < MinRows(f) \/ Changes(h) = {} THEN <<>>
    ELSE IF Cardinality(ExtremePctChanges(h, f)) > 0
         THEN <<[type |-> IF f = "annual" THEN "extreme_annual_change"
                          ELSE "extreme_quarterly_change",
                 severity |-> "error"]>>
         ELSE <<>>

\* idx 639-682 / 826-858: len(extreme_pct_changes) > 1
ExtremeChange(h, f) ==
    IF Len(h) < MinRows(f) \/ Changes(h) = {} THEN <<>>
    ELSE IF Cardinality(ExtremePctChanges(h, f)) > 1
         THEN <<[type |-> IF f = "annual" THEN "extreme_annual_change"
                          ELSE "extreme_quarterly_change",
                 severity |-> "error"]>>
         ELSE <<>>

InitExtreme ==
    /\ MoreIdle
    /\ RunIdle
    /\ BatchIdle
    /\ FnIdle
    /\ WindowIdle
    /\ IdentityIdle
    /\ FilingsIdle
    /\ PriceIdle
    /\ history \in Histories
    /\ freq \in {"annual", "quarterly"}
    /\ eanoms = <<>>
    /\ epc = "call"

CheckExtremeChange ==
    /\ epc = "call"
    /\ eanoms' = ExtremeChange(history, freq)
    /\ epc' = "returned"
    /\ UNCHANGED <<history, freq, runVars, batchVars, fnVars, windowVars,
                   identityVars, filingsVars, priceVars, moreVars>>

NextExtreme == CheckExtremeChange

SpecExtreme == InitExtreme /\ [][NextExtreme]_vars

\* the periods of the history that qualify as extreme: the change from the
\* period before is defined, its size is above the floor (75% annual, 100%
\* quarterly) and above 2.0 times (annual) or 2.5 times (quarterly) the
\* average size of the defined changes of the history
QualifyingPeriods ==
    LET defined == {i \in 2..Len(history) :
                       ~history[i].isna /\ ~history[i - 1].isna}
        size(i) == (Abs(history[i].v - history[i - 1].v) * 100 * PctScale)
                   \div Abs(history[i - 1].v)
        total == SumAbsChanges(history, Len(history))
    IN {i \in defined :
           /\ size(i) > (IF freq = "annual" THEN 75 ELSE 100) * PctScale
           /\ IF freq = "annual"
              THEN size(i) * Cardinality(defined) > 2 * total
              ELSE size(i) * Cardinality(defined) * 2 > 5 * total}

C29_ShortHistoryRaisesNothing ==
    (epc = "returned" /\ eanoms # <<>>) =>
       LET least == IF freq = "annual" THEN 5 ELSE 6
       IN /\ Cardinality(Changes(history)) >= least
          /\ Len(history) >= least + 1

C29_Witness ==
    /\ epc = "returned"
    /\ freq = "annual"
    /\ Len(history) = 6
    /\ Cardinality(Changes(history)) = 5
    /\ eanoms # <<>>

----------------------------------------------------------------------------
(* Rule 2 of _validate_filings: duplicate transactions (idx 1650-1715).     *)
(* A row is identified by its position in valid_data (row.get('id', i) with *)
(* distinct ids); timestamps are counted in half days.                      *)

MaxFilings == 4

FilingRows ==
    [symbol : {"AAAA"}, amount_transaction : {10, 20},
     timestamp : {0, 5, 6}, holder_name : {"x", "y"}]

FilingSets == UNION {[1..n -> FilingRows] : n \in 0..MaxFilings}

\* abs((row_a['timestamp'] - row_b['timestamp']).days): Timedelta.days is the
\* floor of the difference in days, also when the difference is negative
DateDiff(a, b) == Abs((a.timestamp - b.timestamp) \div 2)

\* idx 1679-1692, with row_a the row met first
IsDuplicate(a, b) ==
    /\ a.symbol = b.symbol
    /\ a.symbol # ""
    /\ a.amount_transaction = b.amount_transaction
    /\ \/ DateDiff(a, b) < 3
       \/ a.holder_name = b.holder_name /\ DateDiff(a, b) <= 3

AlreadyReportedNever(id, reported_groups) == FALSE

\* idx 1667, 1675
AlreadyReported(id, reported_groups) == id \in reported_groups

\* idx 1670-1715: the first later row that pairs with row i (0 when none)
FirstMatch(rows, i, reported_groups) ==
    LET js == {j \in (i + 1)..Len(rows) :
                  /\ ~AlreadyReported(j, reported_groups)
                  /\ IsDuplicate(rows[i], rows[j])}
    IN IF js = {} THEN 0 ELSE CHOOSE j \in js : \A k \in js : j <= k

\* idx 1657-1715: the pass over valid_data, from row i on
RECURSIVE DetectFrom(_, _, _, _)
DetectFrom(rows, i, reported_groups, found) ==
    IF i > Len(rows) THEN found
    ELSE IF AlreadyReported(i, reported_groups)
         THEN DetectFrom(rows, i + 1, reported_groups, found)
         ELSE LET j == FirstMatch(rows, i, reported_groups)
              IN IF j = 0
                 THEN DetectFrom(rows, i + 1, reported_groups, found)
                 ELSE DetectFrom(rows, i + 1, reported_groups \cup {i, j},
                                 Append(found, <<i, j>>))

DetectDuplicates(rows) ==
    IF Len(rows) > 1 THEN DetectFrom(rows, 1, {}, <<>>) ELSE <<>>

ReverseRows(rows) == [i \in 1..Len(rows) |-> rows[Len(rows) + 1 - i]]

InitFilings ==
    /\ MoreIdle
    /\ RunIdle
    /\ BatchIdle
    /\ FnIdle
    /\ WindowIdle
    /\ IdentityIdle
    /\ ExtremeIdle
    /\ PriceIdle
    /\ filings \in FilingSets
    /\ pairs = <<>>
    /\ pairs_again = <<>>
    /\ pairs_reversed = <<>>
    /\ fpc = "call"

\* one validation of the dataset
ValidateFilings ==
    /\ fpc = "call"
    /\ pairs' = DetectDuplicates(filings)
    /\ fpc' = "validated"
    /\ UNCHANGED <<filings, pairs_again, pairs_reversed, runVars, batchVars,
                   fnVars, windowVars, identityVars, extremeVars, priceVars, moreVars>>

\* a second validation of the same dataset; reported_groups is a local of
\* the pass (idx 1659)
ValidateFilingsAgain ==
    /\ fpc = "validated"
    /\ pairs_again' = DetectDuplicates(filings)
    /\ fpc' = "validated_twice"
    /\ UNCHANGED <<filings, pairs, pairs_reversed, runVars, batchVars,
                   fnVars, windowVars, identityVars, extremeVars, priceVars, moreVars>>

\* a validation of the same rows fetched in the opposite order
ValidateFilingsReversed ==
    /\ fpc = "validated_twice"
    /\ pairs_reversed' = DetectDuplicates(ReverseRows(filings))
    /\ fpc' = "done"
    /\ UNCHANGED <<filings, pairs, pairs_again, runVars, batchVars,
                   fnVars, windowVars, identityVars, extremeVars, priceVars, moreVars>>

NextFilings ==
    \/ ValidateFilings
    \/ ValidateFilingsAgain
    \/ ValidateFilingsReversed

SpecFilings == InitFilings /\ [][NextFilings]_vars

\* C18: in one pass no row is reported in more than one duplicate pair: the
\* pairs are disjoint, and with n rows there are at most n \div 2 of them.
C18_PairsDisjoint ==
    /\ \A p \in 1..Len(pairs) : pairs[p][1] # pairs[p][2]
    /\ \A p, q \in 1..Len(pairs) :
          p # q => {pairs[p][1], pairs[p][2]} \cap {pairs[q][1], pairs[q][2]} = {}
    /\ Len(pairs) <= Len(filings) \div 2

C18_Witness ==
    /\ fpc = "validated"
    /\ Len(filings) = 3
    /\ IsDuplicate(filings[1], filings[2])
    /\ IsDuplicate(filings[2], filings[3])
    /\ IsDuplicate(filings[1], filings[3])
    /\ pairs = << <<1, 2>> >>

\* C19: for two rows of one symbol with the same amount, the pair is flagged
\* when A precedes B exactly if it is flagged when B precedes A, whatever
\* the two timestamps; and a second pass reports the pairs of the first.
C19_AsStated ==
    (fpc = "done" /\ Len(filings) = 2
        /\ filings[1].symbol = filings[2].symbol
        /\ filings[1].amount_transaction = filings[2].amount_transaction) =>
       /\ (pairs # <<>>) <=> (pairs_reversed # <<>>)
       /\ pairs_again = pairs

----------------------------------------------------------------------------
(* The hierarchy rule of _validate_all_time_price for one symbol            *)
(* (idx 1462-1567)                                                          *)

high_hierarchy == <<"90d_high", "ytd_high", "52w_high", "all_time_high">>
low_hierarchy == <<"90d_low", "ytd_low", "52w_low", "all_time_low">>

PriceTypes ==
    {high_hierarchy[i] : i \in 1..4} \cup {low_hierarchy[i] : i \in 1..4}

\* a price of the pivoted row; NaN when the symbol has no row of that type
PriceRows == [PriceTypes -> Cells({90, 100})]

\* available_highs / available_lows: the periods of the hierarchy that have
\* a value, in the order of the hierarchy
Available(vals, hierarchy) ==
    LET has(p) == ~vals[p].isna
        present == SelectSeq(hierarchy, has)
    IN [i \in 1..Len(present) |-> vals[present[i]].v]

HighIssuesOrEqual(avail) ==
    Cardinality({i \in 1..(Len(avail) - 1) : avail[i] >= avail[i + 1]})

\* idx 1543-1547: current_value > next_value
HighIssues(avail) ==
    Cardinality({i \in 1..(Len(avail) - 1) : avail[i] > avail[i + 1]})

\* idx 1552-1556: current_value < next_value
LowIssues(avail) ==
    Cardinality({i \in 1..(Len(avail) - 1) : avail[i] < avail[i + 1]})

\* idx 1472-1567: issues of the cross-check against daily prices (only with
\* daily data) and of the two hierarchies; one anomaly when there is any
PriceAnomalies(vals, cross_issues) ==
    IF cross_issues
          + HighIssues(Available(vals, high_hierarchy))
          + LowIssues(Available(vals, low_hierarchy)) > 0
    THEN <<[type |-> "price_data_inconsistency", severity |-> "error"]>>
    ELSE <<>>

InitPrice ==
    /\ MoreIdle
    /\ RunIdle
    /\ BatchIdle
    /\ FnIdle
    /\ WindowIdle
    /\ IdentityIdle
    /\ ExtremeIdle
    /\ FilingsIdle
    /\ values \in PriceRows
    /\ daily \in {"raises", "empty", "data"}
    /\ panoms = <<>>
    /\ ppc = "call"

\* one pass of the loop over the pivoted rows: the cross-check runs only
\* when the lookup returns daily data, and may then add issues
CheckPriceHierarchy ==
    /\ ppc = "call"
    /\ \E cross_issues \in 0..1 :
          /\ daily # "data" => cross_issues = 0
          /\ panoms' = PriceAnomalies(values, cross_issues)
    /\ ppc' = "returned"
    /\ UNCHANGED <<values, daily, runVars, batchVars, fnVars, windowVars,
                   identityVars, extremeVars, filingsVars, moreVars>>

NextPrice == CheckPriceHierarchy

SpecPrice == InitPrice /\ [][NextPrice]_vars

\* the values of the periods p of a hierarchy that are available are in
\* the order le along the hierarchy
Monotone(hierarchy, le(_, _)) ==
    \A i, j \in 1..4 :
       (i < j /\ ~values[hierarchy[i]].isna /\ ~values[hierarchy[j]].isna) =>
          le(values[hierarchy[i]].v, values[hierarchy[j]].v)

\* C20: without daily-price data, the check raises an anomaly for the symbol
\* if and only if the available highs in the order 90-day, year-to-date,
\* 52-week, all-time are not non-decreasing or the available lows in that
\* order are not non-increasing, and it raises at most one; a 90-day high of
\* 100 with a year-to-date high of 90 raises exactly one.
C20_HierarchyViolationIffNotMonotone ==
    (ppc = "returned" /\ daily # "data") =>
       /\ (panoms # <<>>) <=>
             ~(/\ Monotone(high_hierarchy, LAMBDA a, b : a <= b)
               /\ Monotone(low_hierarchy, LAMBDA a, b : a >= b))
       /\ Len(panoms) <= 1
       /\ (values["90d_high"] = Num(100) /\ values["ytd_high"] = Num(90)) =>
             Len(panoms) = 1

C20_Witness ==
    /\ ppc = "returned"
    /\ daily = "empty"
    /\ values["90d_high"] = Num(100)
    /\ values["ytd_high"] = Num(90)
    /\ values["52w_high"] = NaN
    /\ values["all_time_high"] = Num(100)
    /\ Monotone(low_hierarchy, LAMBDA a, b : a >= b)
    /\ Len(panoms) = 1

----------------------------------------------------------------------------
(* _tolerance (idx 271-273) on two bases with the same rel and abs_tol      *)

MaxBase == 4
BaseStep == 50

\* base amounts, in units of 1e8, of both signs
Bases == {k * BaseStep : k \in (0 - MaxBase)..MaxBase}

\* rel of the six calls (idx 319-467), in percent, and 0
Rels == {0, 2, 3, 5, 10, 25}

\* abs_tol: 1e9 of every call in units of 1e8, and two other floors
Floors == {0 - 5, 0, 10}

InitTolerance ==
    /\ EarlyIdle
    /\ RouteIdle
    /\ FcfIdle
    /\ CacheIdle
    /\ CoverageIdle
    /\ base_a \in Bases
    /\ base_b \in Bases
    /\ tol_rel \in Rels
    /\ tol_floor \in Floors
    /\ tol_a = 0
    /\ tol_b = 0
    /\ tpc = "call"

CallTolerance ==
    /\ tpc = "call"
    /\ tol_a' = Tolerance(base_a, tol_rel, tol_floor)
    /\ tol_b' = Tolerance(base_b, tol_rel, tol_floor)
    /\ tpc' = "returned"
    /\ UNCHANGED <<base_a, base_b, tol_rel, tol_floor, exceptTolerance>>

NextTolerance == CallTolerance

SpecTolerance == InitTolerance /\ [][NextTolerance]_vars

\* C22: for the same rel >= 0 and the same abs_tol, a base that is no larger
\* in absolute value gets a tolerance that is no larger, and the tolerance
\* is never below abs_tol.
C22_ToleranceMonotone ==
    tpc = "returned" =>
       /\ Abs(base_a) <= Abs(base_b) => tol_a <= tol_b
       /\ tol_a >= tol_floor * 100

C22_Witness ==
    /\ tpc = "returned"
    /\ base_a > 0
    /\ base_b < 0
    /\ Abs(base_a) < Abs(base_b)
    /\ tol_floor = 10
    /\ tol_a = tol_floor * 100
    /\ tol_b > tol_a

----------------------------------------------------------------------------
(* The free cash flow loop of _add_identity_anomalies (idx 421-444) over    *)
(* the rows of a frame                                                      *)

MaxFcfRows == 3

\* a row with net_operating_cash_flow = 100 and capital_expenditure = 0 (in
\* units of 1e8), and what the lookup of its symbol meets
FcfRows ==
    [free_cash_flow : {Num(0), Num(100)},
     net_operating_cash_flow : {Num(100)},
     capital_expenditure : {Num(0)},
     lookup : CompanyLookups]

FcfFrames == UNION {[1..n -> FcfRows] : n \in 1..MaxFcfRows}

\* idx 426-428: sub_sector_id is assigned only from a non-empty result; an
\* empty result leaves the value of an earlier row, or no value at all
SubSectorAfter(co, sub) ==
    CASE co = "sector19" -> "19"
      [] co = "other" -> "other"
      [] OTHER -> sub

\* idx 425-444: whether the row gets to the comparison; int() of a missing
\* sub_sector_id and the read of the unbound variable raise, and the except
\* branch passes
Compared(co, sub) ==
    /\ co # "raises"
    /\ SubSectorAfter(co, sub) \notin {"unbound", "19"}

\* idx 431-442
FcfViolation(r) ==
    LET expected == r.net_operating_cash_flow.v - r.capital_expenditure.v
    IN IF ExceedsTolerance(r.free_cash_flow.v - expected, expected, 5, 5)
       THEN <<Violation("free_cash_flow=CFO-capex", "info")>>
       ELSE <<>>

InitFcf ==
    /\ EarlyIdle
    /\ RouteIdle
    /\ ToleranceIdle
    /\ CacheIdle
    /\ CoverageIdle
    /\ fcf_rows \in FcfFrames
    /\ fcf_i = 1
    /\ sub_sector_id = "unbound"
    /\ evaluated = <<>>
    /\ fcf_anoms = <<>>

\* one pass of "for _, r in x.iterrows()"
FcfRow ==
    /\ fcf_i <= Len(fcf_rows)
    /\ LET r == fcf_rows[fcf_i]
       IN /\ sub_sector_id' = IF r.lookup = "raises" THEN sub_sector_id
                              ELSE SubSectorAfter(r.lookup, sub_sector_id)
          /\ evaluated' = Append(evaluated, Compared(r.lookup, sub_sector_id))
          /\ fcf_anoms' = IF Compared(r.lookup, sub_sector_id)
                          THEN fcf_anoms \o FcfViolation(r)
                          ELSE fcf_anoms
    /\ fcf_i' = fcf_i + 1
    /\ UNCHANGED <<fcf_rows, exceptFcf>>

NextFcf == FcfRow

SpecFcf == InitFcf /\ [][NextFcf]_vars

\* C24: a row is skipped when the lookup of its own symbol gives sub-sector
\* 19, and is compared when that lookup gives another sub-sector or
\* nothing, whatever the rows before it.
C24_AsStated ==
    \A i \in 1..Len(evaluated) :
       /\ fcf_rows[i].lookup = "sector19" => ~evaluated[i]
       /\ fcf_rows[i].lookup \in {"other", "empty"} => evaluated[i]

----------------------------------------------------------------------------
(* get_github_actions_status (routes.py 899-1058): requests of the          *)
(* endpoint run as coroutines of one event loop; a request runs alone       *)
(* between two awaits and gives way to the others at each await             *)

MaxRequests == 2
MaxClock == 2

\* routes.py 906: age < 86400, with the clock counted in days
CacheTtlDays == 1

Requests == 1..MaxRequests

\* the awaits of the upstream fetch, in order (routes.py 929-941)
Awaits == <<"get_workflows", "get_check_api", "get_fetch_sheet">>

AwaitIndex(p) == CHOOSE i \in 1..Len(Awaits) : Awaits[i] = p

InFlight == {Awaits[i] : i \in 1..Len(Awaits)}

\* routes.py 904-908
CacheHit(entry, now) == entry.present /\ now - entry.ts < CacheTtlDays

InitCache ==
    /\ EarlyIdle
    /\ RouteIdle
    /\ ToleranceIdle
    /\ FcfIdle
    /\ CoverageIdle
    /\ cache \in {NoEntry, [present |-> TRUE, ts |-> 0, data |-> 0]}
    /\ rq = [r \in Requests |-> "start"]
    /\ served = [r \in Requests |-> "none"]
    /\ upstream = 0
    /\ clock = 0

\* routes.py 903-941: from the call to the first await
ReadCache(r) ==
    /\ rq[r] = "start"
    /\ IF CacheHit(cache, clock)
       THEN /\ rq' = [rq EXCEPT ![r] = "done"]
            /\ served' = [served EXCEPT ![r] = "cached"]
            /\ UNCHANGED upstream
       ELSE /\ rq' = [rq EXCEPT ![r] = Awaits[1]]
            /\ upstream' = upstream + 1
            /\ UNCHANGED served
    /\ UNCHANGED <<cache, clock, exceptCache>>

\* an await of the fetch completes: the request goes on to the next await,
\* or after the last one builds the result, writes the cache and returns
\* (routes.py 941-1036); an await that raises ends in the fallback answer
\* and leaves the cache alone (1038-1058)
AwaitReturns(r) ==
    /\ rq[r] \in InFlight
    /\ \E raises \in BOOLEAN :
         IF raises
         THEN /\ rq' = [rq EXCEPT ![r] = "done"]
              /\ served' = [served EXCEPT ![r] = "fallback"]
              /\ UNCHANGED cache
         ELSE IF AwaitIndex(rq[r]) < Len(Awaits)
         THEN /\ rq' = [rq EXCEPT ![r] = Awaits[AwaitIndex(rq[r]) + 1]]
              /\ UNCHANGED <<cache, served>>
         ELSE /\ cache' = [present |-> TRUE, ts |-> clock, data |-> r]
              /\ rq' = [rq EXCEPT ![r] = "done"]
              /\ served' = [served EXCEPT ![r] = "fetched"]
    /\ UNCHANGED <<upstream, clock, exceptCache>>

\* a day passes
Tick ==
    /\ rq # <<>>
    /\ clock < MaxClock
    /\ clock' = clock + 1
    /\ UNCHANGED <<cache, rq, served, upstream, exceptCache>>

NextCache ==
    \/ \E r \in Requests : ReadCache(r)
    \/ \E r \in Requests : AwaitReturns(r)
    \/ Tick

SpecCache == InitCache /\ [][NextCache]_vars

\* C26: between the cache read of a request that missed and its cache
\* write, no other request reads or writes the cache; so at most one
\* request at a time is between its missed read and its write.
C26_AsStated ==
    Cardinality({r \in Requests : rq[r] \in InFlight}) <= 1

----------------------------------------------------------------------------
(* The per-date loop of _validate_daily_data_completeness_and_coverage      *)
(* (idx 994-1116) on a frame with parsed dates and every required column    *)

MaxDates == 2

\* symbols as stored: two spellings of one symbol, and another symbol
StoredSymbols == {"AAAA", "aaaa", "BBBB"}

\* _norm_sym: str(s).strip().upper()
NormSym(sym) == IF sym = "aaaa" THEN "AAAA" ELSE sym

UpperSet(syms) == {NormSym(x) : x \in syms}

\* the rows of one date: the symbols present, and whether a close, volume
\* or market_cap of the date is null
DayFrames == [symbols : SUBSET StoredSymbols \ {{}}, has_null : BOOLEAN]

Datasets == UNION {[1..n -> DayFrames] : n \in 1..MaxDates}

CoverageMismatch(date_val, missing_upper, unexpected_upper) ==
    [type |-> "daily_symbol_coverage_mismatch", severity |-> "error",
     date |-> date_val, missing |-> missing_upper,
     unexpected |-> unexpected_upper]

\* idx 1043-1069, the samples within their limit of 50 names
CoverageOfDay(date_val, day_upper_set, active_upper_set) ==
    IF Cardinality(active_upper_set) > 0 /\ day_upper_set # active_upper_set
    THEN <<CoverageMismatch(date_val, active_upper_set \ day_upper_set,
                            day_upper_set \ active_upper_set)>>
    ELSE <<>>

\* idx 1072-1111
NullsOfDay(date_val, day_df) ==
    IF day_df.has_null
    THEN <<[type |-> "daily_required_fields_null", severity |-> "error",
            date |-> date_val, missing |-> {}, unexpected |-> {}]>>
    ELSE <<>>

InitCoverage ==
    /\ EarlyIdle
    /\ RouteIdle
    /\ ToleranceIdle
    /\ FcfIdle
    /\ CacheIdle
    /\ roster \in SUBSET StoredSymbols
    /\ roster_fetch \in {"ok", "raises"}
    /\ active_symbols = {}
    /\ day_frames \in Datasets
    /\ cov_i = 1
    /\ cov_anoms = <<>>
    /\ cov_pc = "fetch"

\* idx 996-1013
FetchActiveSymbols ==
    /\ cov_pc = "fetch"
    /\ IF roster_fetch = "raises"
       THEN /\ active_symbols' = {}
            /\ cov_anoms' = <<[type |-> "reference_table_fetch_error",
                               severity |-> "error", date |-> 0,
                               missing |-> {}, unexpected |-> {}]>>
       ELSE /\ active_symbols' = roster
            /\ UNCHANGED cov_anoms
    /\ cov_pc' = "dates"
    /\ UNCHANGED <<roster, roster_fetch, day_frames, cov_i, exceptCoverage>>

\* one pass of "for date_val, day_df in x.groupby('date_only')"
CheckDate ==
    /\ cov_pc = "dates"
    /\ cov_i <= Len(day_frames)
    /\ cov_anoms' = cov_anoms
                    \o CoverageOfDay(cov_i, UpperSet(day_frames[cov_i].symbols),
                                     UpperSet(active_symbols))
                    \o NullsOfDay(cov_i, day_frames[cov_i])
    /\ cov_i' = cov_i + 1
    /\ UNCHANGED <<roster, roster_fetch, active_symbols, day_frames, cov_pc,
                   exceptCoverage>>

CoverageReturn ==
    /\ cov_pc = "dates"
    /\ cov_i > Len(day_frames)
    /\ cov_pc' = "returned"
    /\ UNCHANGED <<roster, roster_fetch, active_symbols, day_frames, cov_i,
                   cov_anoms, exceptCoverage>>

NextCoverage ==
    \/ FetchActiveSymbols
    \/ CheckDate
    \/ CoverageReturn

SpecCoverage == InitCoverage /\ [][NextCoverage]_vars

CoverageAnomaliesOf(d) ==
    {i \in 1..Len(cov_anoms) :
        /\ cov_anoms[i].type = "daily_symbol_coverage_mismatch"
        /\ cov_anoms[i].date = d}

\* C27: when the roster was fetched, the check returns for each date of the
\* data a coverage anomaly exactly if the symbols of the date, compared
\* without regard to case, differ from the roster; and that anomaly reports
\* the roster symbols that are absent as missing and the others as
\* unexpected.
C27_AsStated ==
    (cov_pc = "returned" /\ roster_fetch = "ok") =>
       \A d \in 1..Len(day_frames) :
          /\ (CoverageAnomaliesOf(d) # {}) <=>
                (UpperSet(day_frames[d].symbols) # UpperSet(roster))
          /\ \A i \in CoverageAnomaliesOf(d) :
                /\ cov_anoms[i].missing =
                      UpperSet(roster) \ UpperSet(day_frames[d].symbols)
                /\ cov_anoms[i].unexpected =
                      UpperSet(day_frames[d].symbols) \ UpperSet(roster)

====
